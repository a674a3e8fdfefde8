----------------------------- MODULE QuotaLedger -----------------------------
(***************************************************************************)
(* Token accounting (storage.py).  A request reserves its estimate before  *)
(* it is queued; one settlement charges what was used and refunds the      *)
(* rest; administrators change limits and reset usage meanwhile; a usage   *)
(* summary folds settled rows into lifetime totals and deletes them.       *)
(*                                                                         *)
(* Each method runs in one SQLite transaction under the database's         *)
(* transaction lock, hence is one action.  quota_ledger rows are written   *)
(* next to every change of a balance and never read, so they are left out. *)
(* A request id stands for its Idempotency-Key and its quota key as well.  *)
(***************************************************************************)
EXTENDS Integers, FiniteSetsExt, Functions

CONSTANTS
  Account,     \* quota accounts
  Request,     \* request ids
  Cost,        \* token estimates and actual uses
  Limit,       \* the limits an administrator sets
  MaxLifetime  \* bound of the model: tokens an account is ever charged

ASSUME QuotaAssumption ==
  /\ Cost \subseteq Nat
  /\ Limit \subseteq Nat
  /\ MaxLifetime \in Nat

VARIABLES
  balance,      \* quota_accounts.balance_tokens
  limit,        \* quota_accounts.limit_tokens
  unlimited,    \* quota_accounts.unlimited
  baseline,     \* quota_accounts.usage_baseline_tokens
  reservation,  \* quota_reservations by request id
  summarized    \* usage_summaries, window 'total': charged tokens

vars == <<balance, limit, unlimited, baseline, reservation, summarized>>

NoRow == [state |-> "NONE"]

Row == [state : {"RESERVED", "SETTLED"}, account : Account,
        reserved : Nat, actual : Nat]

RowsOf(a, s) ==
  {r \in Request : reservation[r].state = s /\ reservation[r].account = a}

Actual == [r \in Request |-> reservation[r].actual]
Reserved == [r \in Request |-> reservation[r].reserved]

Charged(S) == SumFunctionOnSet(Actual, S)

(* The view account_lifetime_usage: raw rows and summaries together.         *)
Lifetime(a) == summarized[a] + Charged(RowsOf(a, "SETTLED"))

Outstanding(a) == SumFunctionOnSet(Reserved, RowsOf(a, "RESERVED"))

----------------------------------------------------------------------------
(* Mutant: the balance is not compared with the estimate. *)
MutReserve(a, r, n) ==
  /\ reservation[r] = NoRow
  /\ Lifetime(a) + Outstanding(a) + n <= MaxLifetime
  /\ reservation' = [reservation EXCEPT ![r] =
                       [state |-> "RESERVED", account |-> a,
                        reserved |-> n, actual |-> 0]]
  /\ balance' = IF unlimited[a] THEN balance
                ELSE [balance EXCEPT ![a] = @ - n]
  /\ UNCHANGED <<limit, unlimited, baseline, summarized>>

(* reserve_quota for a key not seen yet.  A known one gets its reservation   *)
(* back whatever its state, and too small a balance is an error: neither     *)
(* changes anything.  The second conjunct only bounds the model.             *)
Reserve(a, r, n) ==
  /\ reservation[r] = NoRow
  /\ Lifetime(a) + Outstanding(a) + n <= MaxLifetime
  /\ unlimited[a] \/ balance[a] >= n
  /\ reservation' = [reservation EXCEPT ![r] =
                       [state |-> "RESERVED", account |-> a,
                        reserved |-> n, actual |-> 0]]
  /\ balance' = IF unlimited[a] THEN balance
                ELSE [balance EXCEPT ![a] = @ - n]
  /\ UNCHANGED <<limit, unlimited, baseline, summarized>>

(* Mutant: a settled reservation is settled again. *)
MutSettle(r, used) ==
  /\ reservation[r] # NoRow
  /\ LET row == reservation[r]
         charged == Min({used, row.reserved})
     IN /\ reservation' = [reservation EXCEPT ![r] =
                            [state |-> "SETTLED", account |-> row.account,
                             reserved |-> row.reserved, actual |-> charged]]
        /\ balance' = IF unlimited[row.account] THEN balance
                      ELSE [balance EXCEPT ![row.account] =
                              @ + row.reserved - charged]
  /\ UNCHANGED <<limit, unlimited, baseline, summarized>>

(* Mutant: the charge is not capped by the reservation. *)
MutSettleUncapped(r, used) ==
  /\ reservation[r].state = "RESERVED"
  /\ LET row == reservation[r]
     IN /\ reservation' = [reservation EXCEPT ![r] =
                            [state |-> "SETTLED", account |-> row.account,
                             reserved |-> row.reserved, actual |-> used]]
        /\ balance' = IF unlimited[row.account] THEN balance
                      ELSE [balance EXCEPT ![row.account] =
                              @ + Max({0, row.reserved - used})]
  /\ UNCHANGED <<limit, unlimited, baseline, summarized>>

(* settle_quota; release_reservation is the case of no use.                  *)
Settle(r, used) ==
  /\ reservation[r].state = "RESERVED"
  /\ LET row == reservation[r]
         charged == Min({used, row.reserved})
     IN /\ reservation' = [reservation EXCEPT ![r] =
                            [state |-> "SETTLED", account |-> row.account,
                             reserved |-> row.reserved, actual |-> charged]]
        /\ balance' = IF unlimited[row.account] THEN balance
                      ELSE [balance EXCEPT ![row.account] =
                              @ + row.reserved - charged]
  /\ UNCHANGED <<limit, unlimited, baseline, summarized>>

(* update_quota: the new balance counts settled usage only.                  *)
UpdateQuota(a, newLimit, free) ==
  /\ limit' = [limit EXCEPT ![a] = newLimit]
  /\ unlimited' = [unlimited EXCEPT ![a] = free]
  /\ balance' = [balance EXCEPT ![a] =
                   Max({0, newLimit - Max({0, Lifetime(a) - baseline[a]})})]
  /\ UNCHANGED <<baseline, reservation, summarized>>

(* reset_usage starts a new usage period.                                    *)
ResetUsage(a) ==
  /\ balance' = [balance EXCEPT ![a] = limit[a]]
  /\ baseline' = [baseline EXCEPT ![a] = Lifetime(a)]
  /\ UNCHANGED <<limit, unlimited, reservation, summarized>>

(* create_key for an administrator who joins an existing account.            *)
AdminJoins(a) ==
  /\ unlimited' = [unlimited EXCEPT ![a] = TRUE]
  /\ UNCHANGED <<balance, limit, baseline, reservation, summarized>>

(* Mutant: the totals are replaced, as those of the current window are. *)
MutSummarize(S) ==
  /\ S # {} /\ \A r \in S : reservation[r].state = "SETTLED"
  /\ summarized' = [a \in Account |-> Charged(S \cap RowsOf(a, "SETTLED"))]
  /\ reservation' = [r \in Request |-> IF r \in S THEN NoRow ELSE reservation[r]]
  /\ UNCHANGED <<balance, limit, unlimited, baseline>>

(* summarize_usage: the rows settled up to the cutoff are added to the       *)
(* lifetime totals and deleted.                                              *)
Summarize(S) ==
  /\ S # {} /\ \A r \in S : reservation[r].state = "SETTLED"
  /\ summarized' = [a \in Account |->
                      summarized[a] + Charged(S \cap RowsOf(a, "SETTLED"))]
  /\ reservation' = [r \in Request |-> IF r \in S THEN NoRow ELSE reservation[r]]
  /\ UNCHANGED <<balance, limit, unlimited, baseline>>

----------------------------------------------------------------------------
(* Accounts as create_key makes them: the whole limit is available.          *)
Init ==
  /\ limit \in [Account -> Limit]
  /\ balance = limit
  /\ unlimited \in [Account -> BOOLEAN]
  /\ baseline = [a \in Account |-> 0]
  /\ reservation = [r \in Request |-> NoRow]
  /\ summarized = [a \in Account |-> 0]

Inference ==
  \/ \E a \in Account, r \in Request, n \in Cost : Reserve(a, r, n)
  \/ \E r \in Request, used \in Cost \cup {0} : Settle(r, used)
  \/ \E S \in SUBSET Request : Summarize(S)

Next ==
  \/ Inference
  \/ \E a \in Account, l \in Limit, free \in BOOLEAN : UpdateQuota(a, l, free)
  \/ \E a \in Account : ResetUsage(a) \/ AdminJoins(a)

Spec == Init /\ [][Next]_vars

----------------------------------------------------------------------------
(* Properties *)

(* In particular no balance is ever negative and no charge exceeds what was  *)
(* reserved for it, whatever an administrator changes in between.            *)
TypeOK ==
  /\ balance \in [Account -> Nat]
  /\ limit \in [Account -> Limit]
  /\ unlimited \in [Account -> BOOLEAN]
  /\ baseline \in [Account -> Nat]
  /\ reservation \in [Request -> Row \cup {NoRow}]
  /\ summarized \in [Account -> Nat]

(* A reservation is charged no more than it reserved, however much the       *)
(* engine reports.                                                           *)
ChargeWithinReservation ==
  \A r \in Request :
    reservation[r].state = "SETTLED" => reservation[r].actual <= reservation[r].reserved

(* Every path of a request ends in settle_quota, several of them may, and    *)
(* only the first one counts.                                                *)
SettlementIsFinal ==
  [][\A r \in Request :
       reservation[r].state = "SETTLED"
         => reservation'[r] \in {reservation[r], NoRow}]_vars

Tokens(a) == balance[a] + Outstanding(a) + Lifetime(a)

(* Only an administrator creates or destroys tokens of a limited account:    *)
(* reserving, settling (in any order, any number of times) and summarizing   *)
(* merely move them between balance, reservations and usage.                 *)
TokensConserved ==
  [][\A a \in Account :
       \/ unlimited[a]
       \/ \E l \in Limit, free \in BOOLEAN : UpdateQuota(a, l, free)
       \/ ResetUsage(a)
       \/ Tokens(a)' = Tokens(a)]_vars

(* Lifetime totals survive settlements, resets and the deletion of raw rows. *)
LifetimeNeverShrinks ==
  [][\A a \in Account : Lifetime(a) <= Lifetime(a)']_vars

(* The usage of the current period is what update_quota and the dashboards   *)
(* make of the baseline; it is never negative.                               *)
BaselineWithinLifetime == \A a \in Account : baseline[a] <= Lifetime(a)
=============================================================================
