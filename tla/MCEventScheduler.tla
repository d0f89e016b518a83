-------------------------- MODULE MCEventScheduler --------------------------
(* Instances of EventScheduler for TLC. *)
EXTENDS EventScheduler

Config(at, priority, content, interval, duration, count, restores) ==
  [at |-> at, priority |-> priority, content |-> content,
   interval |-> interval, duration |-> duration, count |-> count,
   restores |-> restores]

\* One batch has a link outage repeated twice whose restore is due together with
\* the next outage; a publication and a subscription of one instant, configured
\* in the wrong order; a change that is never restored.  The other has an endless
\* outage whose restore comes after the next outage began, next to an endless
\* content event.
MCEvents == << Config(1, 5, FALSE, 2, 2, 2, TRUE),
               Config(3, 2, TRUE, 0, 0, 0, FALSE),
               Config(3, 0, TRUE, 0, 0, 0, FALSE),
               Config(0, 5, FALSE, 0, 1, 0, FALSE),
               Config(0, 5, FALSE, 2, 3, 0, TRUE),
               Config(1, 3, TRUE, 3, 0, 0, FALSE) >>
MCBatches == {1..4, 5..6}
=============================================================================
