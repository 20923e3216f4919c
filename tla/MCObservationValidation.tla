---------------------- MODULE MCObservationValidation ----------------------
(* Instance of ObservationValidation for TLC: every shape of one observation, *)
(* and batches of up to three around every watermark.                         *)
EXTENDS ObservationValidation

Shape(payload, operation, uid, name, eventId, sequence) ==
  [payload |-> payload, operation |-> operation, uid |-> uid, name |-> name,
   eventId |-> eventId, sequence |-> sequence]

Frame(id, first, last, fits, checksum, observations) ==
  [id |-> id, first |-> first, last |-> last, fits |-> fits,
   checksum |-> checksum, observations |-> observations]

MCHellos == {[tenant |-> t, cluster |-> c, instance |-> TRUE] :
               t \in BOOLEAN, c \in BOOLEAN}

\* One observation of any shape, in a frame that is right about it.
Singles == {Frame(TRUE, o.sequence, o.sequence, TRUE, TRUE, <<o>>) :
              o \in {Shape(p, op, u, n, e, s) :
                       p \in Payloads,
                       op \in {"unspecified", "upsert", "delete"},
                       u \in BOOLEAN, n \in BOOLEAN, e \in BOOLEAN,
                       s \in 0 .. 2}}

Good(s) == Shape("pod", "upsert", TRUE, TRUE, TRUE, s)

\* Up to three observations, in frames that may be wrong about them.
Runs == {Frame(TRUE, f, l, fits, sum, [i \in 1 .. n |-> Good(g + i)]) :
           f \in 0 .. 2, l \in 0 .. 4, n \in 0 .. 3, g \in 0 .. 1,
           fits \in BOOLEAN, sum \in BOOLEAN}

MCBatches == Singles \cup Runs
=============================================================================
