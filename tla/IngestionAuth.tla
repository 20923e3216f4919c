--------------------------- MODULE IngestionAuth ----------------------------
(***************************************************************************)
(* Who an agent's stream belongs to (services/ingestion/server/auth.go).    *)
(* A peer is [verified, uris]: whether the transport verified its           *)
(* certificate, and the certificate's URI names in order.  A URI is         *)
(* [scheme, host, parts], parts the unescaped segments of its path.         *)
(***************************************************************************)
EXTENDS Sequences, Integers, FiniteSets

\* parseIdentityURI.
IsIdentityURI(uri) ==
  /\ uri.scheme = "spiffe" /\ uri.host = "kube-cost"
  /\ Len(uri.parts) = 4 /\ uri.parts[1] = "tenant" /\ uri.parts[3] = "cluster"
  /\ uri.parts[2] # "" /\ uri.parts[4] # ""

\* Fault variant: any identity of the certificate will do.
AnyIdentity(peer) ==
  {<<peer.uris[i].parts[2], peer.uris[i].parts[4]>> :
     i \in {j \in DOMAIN peer.uris : IsIdentityURI(peer.uris[j])}}

\* certificateIdentity: the first URI that is an identity, if there is one.
CertificateIdentity(peer) ==
  {<<peer.uris[i].parts[2], peer.uris[i].parts[4]>> :
     i \in {j \in DOMAIN peer.uris :
              IsIdentityURI(peer.uris[j]) /\ \A k \in 1..(j - 1) : ~IsIdentityURI(peer.uris[k])}}

\* MTLSAuthenticator.Authenticate.
AuthenticateMTLS(peer, agent) ==
  peer.verified /\ <<agent.tenant, agent.cluster>> \in CertificateIdentity(peer)

\* InsecureAuthenticator.Authenticate.
AuthenticateInsecure(agent) == agent.tenant # "" /\ agent.cluster # ""

\* The authenticator app.Run chooses.
Authenticate(insecure, peer, agent) ==
  IF insecure THEN AuthenticateInsecure(agent) ELSE AuthenticateMTLS(peer, agent)
-----------------------------------------------------------------------------
\* With mTLS a certificate is good for one cluster of one tenant, whichever
\* other names it carries: two hellos accepted from one peer name the same
\* cluster, so the watermark a stream moves is never another cluster's.
OneIdentityPerCertificate(peer, agents) ==
  \A a, b \in agents :
    Authenticate(FALSE, peer, a) /\ Authenticate(FALSE, peer, b) =>
      a.tenant = b.tenant /\ a.cluster = b.cluster /\ a.tenant # "" /\ a.cluster # ""
=============================================================================
