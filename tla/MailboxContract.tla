---------------------------- MODULE MailboxContract ----------------------------
(***************************************************************************)
(* What the Director's command queue promises: TF2 carries the actions out *)
(* in the order of the requests, and the Director reports an action        *)
(* complete only after TF2 has carried it out.  TF2 carries no action out  *)
(* again, unless a consumed slot could not be overwritten.                 *)
(***************************************************************************)
EXTENDS Naturals, Sequences, Functions

VARIABLES
    requested, \* number of actions asked for; they are numbered in this order
    dropped,   \* the actions given up with an error
    executed,  \* the actions TF2 has carried out, in the order of the first time
    reported,  \* the actions reported complete
    spoiled,   \* a consumed slot could not be overwritten
    repeats    \* how often TF2 has carried out an action again

vars == <<requested, dropped, executed, reported, spoiled, repeats>>

Init ==
    /\ requested = 0 /\ dropped = {}
    /\ executed = <<>> /\ reported = <<>>
    /\ spoiled = FALSE /\ repeats = 0

Unsettled == (1..requested') \ (dropped \cup Range(executed))

\* One more request; or an action is given up, maybe the new one.
Ask ==
    /\ requested' \in {requested, requested + 1}
    /\ dropped' = dropped \/ \E a \in Unsettled : dropped' = dropped \cup {a}
    /\ UNCHANGED <<executed, repeats>>

Execute ==
    /\ \E a \in (1..requested) \ dropped :
          /\ \A b \in Range(executed) : b < a
          /\ executed' = Append(executed, a)
    /\ UNCHANGED <<requested, dropped, reported, spoiled, repeats>>

\* TF2 comes round to a slot that still holds an action of an earlier turn.
Repeat ==
    /\ spoiled /\ repeats' = repeats + 1
    /\ UNCHANGED <<requested, dropped, executed, reported, spoiled>>

\* The next executed action is reported complete, and its slot overwritten or
\* not; or nothing is reported.
Report ==
    \/ UNCHANGED <<reported, spoiled>>
    \/ /\ Len(reported) < Len(executed)
       /\ reported' = Append(reported, executed[Len(reported) + 1])
       /\ spoiled' \in {spoiled, TRUE}

Next == (Ask /\ Report) \/ Execute \/ Repeat

Spec == Init /\ [][Next]_vars
=============================================================================
