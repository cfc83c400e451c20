--------------------------- MODULE SessionStates ---------------------------
(***************************************************************************)
(* What the Stratum Session Engine promises about a session's protocol    *)
(* state (spec.md 4.3, "States"): a session starts CONNECTED and its state *)
(* only ever rises along CONNECTED < SUBSCRIBED < AUTHENTICATED; a second  *)
(* subscribe or authorize never makes an authenticated session regress,   *)
(* and only an authenticated session's shares are published.              *)
(*                                                                         *)
(* The detailed session modules (StratumSessionBitcoin, StratumSessionEth) *)
(* instantiate this module with their own state and published shares.     *)
(***************************************************************************)
EXTENDS Naturals

CONSTANT Shares          \* the shares a miner can submit

VARIABLES state,         \* the session's protocol state
          published      \* the shares sent to the share topic

States == <<"CONNECTED", "SUBSCRIBED", "AUTHENTICATED">>
Rank(s) == CHOOSE i \in 1..3 : States[i] = s

Init == /\ state = "CONNECTED"
        /\ published = {}

\* A request moves the session to a higher state.
Advance == /\ \E i \in 1..3 : Rank(state) < i /\ state' = States[i]
           /\ UNCHANGED published

\* An authenticated session publishes a share.
Publish == /\ state = "AUTHENTICATED"
           /\ \E s \in Shares : published' = published \cup {s}
           /\ UNCHANGED state

Next == Advance \/ Publish

Spec == Init /\ [][Next]_<<state, published>>
=============================================================================
