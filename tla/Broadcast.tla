----------------------------- MODULE Broadcast -----------------------------
(***************************************************************************)
(* What the HTTP display promises the pages that are open                  *)
(* (src/http_display/httpd.c): a page gets every message sent after it     *)
(* connected, in order and once each, after some run of the messages sent  *)
(* before.  Nothing is promised once the display is `broken', that is,     *)
(* after the two threads have met in the one window that HttpRing names.   *)
(***************************************************************************)
EXTENDS Integers

CONSTANT Pages

VARIABLES sent,    \* number of messages sent so far; message m is the mth
          joined,  \* for each page, the value of sent when it connected
          last,    \* for each page, the last message it was given, or 0
          broken

vars == <<sent, joined, last, broken>>

Init == /\ sent = 0
        /\ joined = [p \in Pages |-> 0]
        /\ last = [p \in Pages |-> 0]
        /\ broken = FALSE

Send == /\ sent' = sent + 1
        /\ UNCHANGED <<joined, last, broken>>

Connect(p) == /\ last[p] = 0
              /\ joined' = [joined EXCEPT ![p] = sent]
              /\ UNCHANGED <<sent, last, broken>>

\* The message that follows, or, of a page that has none yet, one of those
\* sent before it connected or the first sent after.
Deliver(p) == /\ \E m \in 1 .. sent :
                    /\ IF last[p] = 0 THEN m <= joined[p] + 1 ELSE m = last[p] + 1
                    /\ last' = [last EXCEPT ![p] = m]
              /\ UNCHANGED <<sent, joined, broken>>

Leave(p) == /\ joined' = [joined EXCEPT ![p] = 0]
            /\ last' = [last EXCEPT ![p] = 0]
            /\ UNCHANGED <<sent, broken>>

Next == \/ Send
        \/ \E p \in Pages : Connect(p) \/ Deliver(p) \/ Leave(p)
        \/ broken'

Spec == Init /\ [][Next]_vars
=============================================================================
