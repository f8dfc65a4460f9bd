--------------------------- MODULE OrderedStream ---------------------------
(***************************************************************************)
(* What core/stream.hpp promises of a Stream, without threads, locks or    *)
(* condition variables: tasks run one at a time in submission order, a     *)
(* wait ends only when every task has finished, and it takes the first     *)
(* failure since the wait before it.  Tasks are numbered as submitted.     *)
(***************************************************************************)
EXTENDS Naturals

VARIABLES subs,    \* tasks submitted
          begun,   \* tasks started
          done,    \* tasks finished, their captures destroyed
          failed   \* first task that threw since the last wait, 0 if none

svars == <<subs, begun, done, failed>>

StreamInit == subs = 0 /\ begun = 0 /\ done = 0 /\ failed = 0

StreamSubmit == subs' = subs + 1 /\ UNCHANGED <<begun, done, failed>>

StreamBegin == /\ begun = done /\ done < subs
               /\ begun' = done + 1
               /\ UNCHANGED <<subs, done, failed>>

StreamThrow == /\ begun = done + 1
               /\ failed' = IF failed = 0 THEN begun ELSE failed
               /\ UNCHANGED <<subs, begun, done>>

StreamFinish == /\ begun = done + 1
                /\ done' = begun
                /\ UNCHANGED <<subs, begun, failed>>

StreamWait == /\ done = subs
              /\ failed' = 0
              /\ UNCHANGED <<subs, begun, done>>

StreamNext == \/ StreamSubmit \/ StreamBegin \/ StreamThrow
              \/ StreamFinish \/ StreamWait

StreamSpec == StreamInit /\ [][StreamNext]_svars
=============================================================================
