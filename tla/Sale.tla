-------------------------------- MODULE Sale --------------------------------
(***************************************************************************)
(* What the account may rely on when its holdings are sold by somebody who *)
(* looks, offers and withdraws while the market may take the offer at any  *)
(* time: shares of a name are offered only when none are on offer, and no  *)
(* more than there are, but for what was taken while the seller was        *)
(* withdrawing an earlier offer; a sale is logged after it happened.       *)
(***************************************************************************)
EXTENDS Integers

CONSTANTS
    Names,
    Start       \* shares of each name at the start

VARIABLES
    held,       \* shares in the account, negative when short
    offered,    \* shares on offer
    raced,      \* shares taken while the seller had looked and was withdrawing
    logged      \* shares the log says were sold

vars == <<held, offered, raced, logged>>

Init ==
    /\ held = [t \in Names |-> Start]
    /\ offered = [t \in Names |-> 0]
    /\ raced = [t \in Names |-> 0]
    /\ logged = [t \in Names |-> 0]

(* The seller may sell n more shares of t. *)
MayOffer(t, n) == offered[t] = 0 /\ n <= held[t] + raced[t]

Offer(t, n) ==
    /\ MayOffer(t, n)
    /\ offered' = [offered EXCEPT ![t] = n]
    /\ UNCHANGED <<held, raced, logged>>

(* n shares are taken; late when the seller does not know of it in time. *)
Take(t, n, late) ==
    /\ n <= offered[t]
    /\ offered' = [offered EXCEPT ![t] = @ - n]
    /\ held' = [held EXCEPT ![t] = @ - n]
    /\ raced' = IF late THEN [raced EXCEPT ![t] = @ + n] ELSE raced
    /\ UNCHANGED logged

Withdraw(t) ==
    /\ offered' = [offered EXCEPT ![t] = 0]
    /\ UNCHANGED <<held, raced, logged>>

(* An offer that is taken, and logged, at once. *)
SellAtOnce(t, n) ==
    /\ MayOffer(t, n)
    /\ held' = [held EXCEPT ![t] = @ - n]
    /\ logged' = [logged EXCEPT ![t] = @ + n]
    /\ UNCHANGED <<offered, raced>>

Log(t, n) ==
    /\ logged[t] + n <= Start - held[t]
    /\ logged' = [logged EXCEPT ![t] = @ + n]
    /\ UNCHANGED <<held, offered, raced>>

Next ==
    \E t \in Names :
        \/ \E n \in 0..(held[t] + raced[t]) : Offer(t, n) \/ SellAtOnce(t, n)
        \/ \E n \in 0..offered[t], late \in BOOLEAN : Take(t, n, late)
        \/ Withdraw(t)
        \/ \E n \in 0..Start : Log(t, n)

Spec == Init /\ [][Next]_vars
=============================================================================
