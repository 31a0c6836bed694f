----------------------------- MODULE LogPromise -----------------------------
(* What the access log promises about one exchange, whatever happens inside   *)
(* it: a line is written only when the exchange is over, at most one, and the *)
(* number of bytes in it is the number that was handed to the client.  An     *)
(* exchange without a line is one of which nothing was handed over.           *)
EXTENDS Naturals, Sequences

VARIABLES
    over,    \* nothing happens any more
    given,   \* bytes of the response handed over
    totals   \* the byte counts of the lines written

vars == <<over, given, totals>>

Init == ~over /\ given = 0 /\ totals = <<>>

(* Any amount at once.                                                        *)
Give == /\ ~over
        /\ given' > given
        /\ UNCHANGED <<over, totals>>

Log == /\ ~over
       /\ over'
       /\ totals' = <<given>>
       /\ UNCHANGED given

(* The exchange ends without a line.                                          *)
Vanish == /\ ~over
          /\ given = 0
          /\ over'
          /\ UNCHANGED <<given, totals>>

Next == Give \/ Log \/ Vanish

Spec == Init /\ [][Next]_vars
=============================================================================
