------------------------------- MODULE Ledger -------------------------------
(***************************************************************************)
(* The posting discipline of PaymentsService.recordAccountEvent and        *)
(* recordWalletEvent, the only two ways the payment code writes money.     *)
(*                                                                         *)
(* A book holds the references already posted (FinancialTransaction has a  *)
(* unique index on reference) and the balance of every ledger account and  *)
(* of every driver's wallet.  A posting is one FinancialTransaction, one   *)
(* LedgerEntry and one balance increment, made in the caller's database    *)
(* transaction.                                                            *)
(***************************************************************************)
EXTENDS Integers, FiniteSets

CONSTANT Drivers        \* driver profiles, each with one wallet

LedgerAccounts ==
  {"cash_clearing", "commission_revenue", "driver_payable", "payout_clearing"}

ASSUME DriversAssumption ==
  /\ IsFiniteSet(Drivers)
  /\ Drivers \cap LedgerAccounts = {}

(* Whatever carries a balance: a ledger account or a driver's wallet.      *)
Holders == LedgerAccounts \cup Drivers

EmptyBook == [refs |-> {}, balance |-> [h \in Holders |-> 0]]

(* Bug: the balance is incremented before the reference is looked up.      *)
PostAgain(book, ref, holder, signedAmount) ==
  [ refs    |-> book.refs \cup {ref},
    balance |-> [book.balance EXCEPT ![holder] = @ + signedAmount] ]

(* Find the reference and return it, or increment the balance and record.  *)
Post(book, ref, holder, signedAmount) ==
  IF ref \in book.refs
  THEN book
  ELSE [ refs    |-> book.refs \cup {ref},
         balance |-> [book.balance EXCEPT ![holder] = @ + signedAmount] ]
=============================================================================
