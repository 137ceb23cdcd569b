--------------------------------- MODULE Escrow ---------------------------------
(***************************************************************************)
(* What the marketplace promises about money: an escrow account.  Funds    *)
(* are granted, a buyer's uncommitted funds can be placed on hold for a    *)
(* reference that was never used before, and a hold ends once: released    *)
(* in full, or captured for at most its amount, with the captured charge   *)
(* split between the payee and the house.                                  *)
(***************************************************************************)
EXTENDS Integers, FiniteSets, Sums

CONSTANTS
  Accounts,     \* buyers and payees
  House,        \* the account of the platform
  Refs,         \* what a hold is placed for
  Grant,        \* the promotional credit
  HoldAmounts   \* amounts a hold can have

VARIABLES
  granted,   \* accounts that have received the grant
  funds,     \* what an account owns, held or not
  holds,     \* holds in force
  closed     \* references whose hold has ended

escrow == <<granted, funds, holds, closed>>

Hold == [ref : Refs, owner : Accounts, amount : HoldAmounts]

Held(a) == LET mine == {h \in holds : h.owner = a}
           IN  Total(mine, [h \in mine |-> h.amount])

Init ==
  /\ granted = {}
  /\ funds = [a \in Accounts \cup {House} |-> 0]
  /\ holds = {} /\ closed = {}

GrantOnce(a) ==
  /\ a \notin granted
  /\ granted' = granted \cup {a}
  /\ funds' = [funds EXCEPT ![a] = @ + Grant]
  /\ UNCHANGED <<holds, closed>>

PlaceHold(h) ==
  /\ h \in Hold
  /\ \A g \in holds : g.ref # h.ref
  /\ h.ref \notin closed
  /\ holds' = holds \cup {h}
  /\ funds[h.owner] - Held(h.owner) >= h.amount
  /\ UNCHANGED <<closed, granted, funds>>

Release(S) ==
  /\ S # {}
  /\ holds' = holds \ S
  /\ closed' = closed \cup {h.ref : h \in S}
  /\ UNCHANGED <<granted, funds>>

Capture(h, payee, charge, fee) ==
  /\ payee # h.owner /\ fee <= charge /\ charge <= h.amount
  /\ holds' = holds \ {h}
  /\ closed' = closed \cup {h.ref}
  /\ funds' = [funds EXCEPT ![h.owner] = @ - charge, ![payee] = @ + charge - fee,
                            ![House] = @ + fee]
  /\ UNCHANGED granted

(* A step places the hold that is new in it and ends the holds it removes. *)
Next ==
  \/ \E a \in Accounts : GrantOnce(a)
  \/ \E h \in holds' \ holds : PlaceHold(h)
  \/ Release(holds \ holds')
  \/ \E h \in holds \ holds', p \in Accounts :
       \E c \in 0..h.amount : \E f \in 0..c : Capture(h, p, c, f)

Spec == Init /\ [][Next]_escrow

=============================================================================
