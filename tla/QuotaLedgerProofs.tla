-------------------------- MODULE QuotaLedgerProofs --------------------------
(***************************************************************************)
(* Theorems about QuotaLedger for any accounts, requests, estimates and    *)
(* limits, with no bound on the number of rows.                            *)
(***************************************************************************)
EXTENDS QuotaLedger, SetTheorems

----------------------------------------------------------------------------
(* What each operation moves between balance, reservations and usage.        *)

(* A table has finitely many rows, so that their sums mean something.        *)
FiniteRows == IsFiniteSet({r \in Request : reservation[r] # NoRow})

(* The rows the sums range over are finitely many and hold numbers.          *)
LEMMA RowSets ==
  ASSUME TypeOK, FiniteRows, NEW a, NEW s \in {"RESERVED", "SETTLED"}
  PROVE  /\ IsFiniteSet(RowsOf(a, s)) /\ RowsOf(a, s) \subseteq Request
         /\ \A r \in RowsOf(a, s) : Actual[r] \in Nat /\ Reserved[r] \in Nat
<1> DEFINE rows == {r \in Request : reservation[r] # NoRow}
<1>1. RowsOf(a, s) \in SUBSET rows
  BY DEF RowsOf, NoRow
<1>2. IsFiniteSet(RowsOf(a, s))
  BY <1>1, FS_Subset DEF FiniteRows
<1>3. \A r \in RowsOf(a, s) : r \in Request /\ reservation[r] \in Row
  BY DEF RowsOf, TypeOK, NoRow
<1>4. \A r \in RowsOf(a, s) : Actual[r] \in Nat /\ Reserved[r] \in Nat
  BY <1>3 DEF Actual, Reserved, Row
<1> QED
  BY <1>2, <1>3, <1>4

(* Usage and outstanding reservations are numbers of tokens.                 *)
LEMMA SumsAreCounts ==
  ASSUME TypeOK, FiniteRows, NEW a \in Account
  PROVE  Lifetime(a) \in Nat /\ Outstanding(a) \in Nat
<1>1. Charged(RowsOf(a, "SETTLED")) \in Nat
  BY RowSets, SumNat DEF Charged
<1>2. Outstanding(a) \in Nat
  BY RowSets, SumNat DEF Outstanding
<1> QED
  BY <1>1, <1>2 DEF Lifetime, TypeOK

(* Rows of other accounts, and rows that are not touched, count as before.   *)
LEMMA SumsUntouched ==
  ASSUME TypeOK, FiniteRows, NEW b \in Account, NEW s \in {"RESERVED", "SETTLED"},
         RowsOf(b, s)' = RowsOf(b, s),
         \A r \in RowsOf(b, s) : reservation'[r] = reservation[r]
  PROVE  /\ SumFunctionOnSet(Actual', RowsOf(b, s)') = SumFunctionOnSet(Actual, RowsOf(b, s))
         /\ SumFunctionOnSet(Reserved', RowsOf(b, s)') = SumFunctionOnSet(Reserved, RowsOf(b, s))
<1> DEFINE rows == RowsOf(b, s)
<1>1. IsFiniteSet(rows) /\ \A r \in rows : Actual[r] \in Int /\ Reserved[r] \in Int
  BY RowSets
<1>2. \A r \in rows : Actual'[r] = Actual[r] /\ Reserved'[r] = Reserved[r]
  BY DEF Actual, Reserved, RowsOf
<1>3. /\ SumFunctionOnSet(Actual', rows) = SumFunctionOnSet(Actual, rows)
      /\ SumFunctionOnSet(Reserved', rows) = SumFunctionOnSet(Reserved, rows)
  <2> HIDE DEF rows
  <2> QED
    BY <1>1, <1>2, SumSame
<1> QED
  BY <1>3, Zenon

(* reserve_quota adds to the outstanding reservations and to nothing else.   *)
LEMMA ReserveMoves ==
  ASSUME TypeOK, FiniteRows, NEW a \in Account, NEW r \in Request, NEW n \in Nat,
         Reserve(a, r, n)
  PROVE  /\ FiniteRows'
         /\ \A b \in Account :
              /\ Lifetime(b)' = Lifetime(b)
              /\ Outstanding(b)' = Outstanding(b) + (IF b = a THEN n ELSE 0)
<1> DEFINE row == [state |-> "RESERVED", account |-> a, reserved |-> n, actual |-> 0]
<1>1. /\ reservation[r] = NoRow /\ reservation' = [reservation EXCEPT ![r] = row]
      /\ summarized' = summarized
  BY DEF Reserve
<1>2. /\ reservation'[r] = row
      /\ \A q \in Request \ {r} : reservation'[q] = reservation[q]
  BY <1>1 DEF TypeOK
<1>3. FiniteRows'
  <2>1. {q \in Request : reservation'[q] # NoRow}
          = {q \in Request : reservation[q] # NoRow} \cup {r}
    BY <1>1, <1>2 DEF NoRow
  <2> QED
    BY <2>1, FS_AddElement DEF FiniteRows
<1>4. ASSUME NEW b \in Account
      PROVE /\ RowsOf(b, "SETTLED")' = RowsOf(b, "SETTLED")
            /\ RowsOf(b, "RESERVED")'
                 = RowsOf(b, "RESERVED") \cup (IF b = a THEN {r} ELSE {})
            /\ r \notin RowsOf(b, "SETTLED") /\ r \notin RowsOf(b, "RESERVED")
  BY <1>1, <1>2 DEF RowsOf, NoRow
<1>5. ASSUME NEW b \in Account PROVE Lifetime(b)' = Lifetime(b)
  <2>1. SumFunctionOnSet(Actual', RowsOf(b, "SETTLED")')
          = SumFunctionOnSet(Actual, RowsOf(b, "SETTLED"))
    <3>1. \A q \in RowsOf(b, "SETTLED") : reservation'[q] = reservation[q]
      BY <1>2, <1>4 DEF RowsOf
    <3> QED
      BY <1>4, <3>1, SumsUntouched
  <2> QED
    BY <1>1, <2>1 DEF Lifetime, Charged
<1>6. ASSUME NEW b \in Account, b # a PROVE Outstanding(b)' = Outstanding(b)
  <2>1. RowsOf(b, "RESERVED")' = RowsOf(b, "RESERVED")
    BY <1>4, <1>6
  <2>2. \A q \in RowsOf(b, "RESERVED") : reservation'[q] = reservation[q]
    BY <1>2, <1>4 DEF RowsOf
  <2> QED
    BY <2>1, <2>2, SumsUntouched DEF Outstanding
<1>7. Outstanding(a)' = Outstanding(a) + n
  <2> DEFINE rows == RowsOf(a, "RESERVED")
  <2>0. IsFiniteSet(rows) /\ \A q \in rows : q \in Request /\ Reserved[q] \in Nat
    BY RowSets
  <2>1. /\ IsFiniteSet(rows) /\ r \notin rows
        /\ \A q \in rows : Reserved[q] \in Nat /\ Reserved'[q] = Reserved[q]
        /\ Reserved'[r] = n
    <3>1. r \notin rows
      BY <1>4
    <3>2. \A q \in rows : reservation'[q] = reservation[q]
      BY <1>2, <2>0, <3>1
    <3> HIDE DEF rows
    <3> QED
      BY <1>2, <2>0, <3>1, <3>2 DEF Reserved
  <2>2. RowsOf(a, "RESERVED")' = rows \cup {r}
    BY <1>4
  <2> HIDE DEF rows
  <2>3. SumFunctionOnSet(Reserved', rows \cup {r}) = n + SumFunctionOnSet(Reserved', rows)
    <3>1. \A q \in rows \cup {r} : Reserved'[q] \in Int
      BY <2>1
    <3>2. SumFunctionOnSet(Reserved', rows \cup {r})
            = Reserved'[r] + SumFunctionOnSet(Reserved', rows)
      BY ONLY <2>1, <3>1, SumAdd
    <3> QED
      BY <2>1, <3>2
  <2>4. SumFunctionOnSet(Reserved', rows) = SumFunctionOnSet(Reserved, rows)
    BY <2>1, SumSame
  <2>5. SumFunctionOnSet(Reserved, rows) \in Nat
    BY <2>1, SumNat
  <2>6. Outstanding(a)' = SumFunctionOnSet(Reserved', rows \cup {r})
    BY <2>2, Zenon DEF Outstanding
  <2> QED
    BY <2>3, <2>4, <2>5, <2>6 DEF Outstanding, rows
<1>8. \A b \in Account : Outstanding(b) \in Nat
  BY SumsAreCounts
<1> QED
  BY <1>3, <1>5, <1>6, <1>7, <1>8

(* settle_quota turns a reservation into a charge, and returns the rest.     *)
LEMMA SettleMoves ==
  ASSUME TypeOK, FiniteRows, NEW r \in Request, NEW used \in Nat, Settle(r, used)
  PROVE  LET a == reservation[r].account
             reserved == reservation[r].reserved
             charged == Min({used, reserved})
         IN /\ FiniteRows'
            /\ \A b \in Account :
                 /\ Lifetime(b)' = Lifetime(b) + (IF b = a THEN charged ELSE 0)
                 /\ Outstanding(b)' = Outstanding(b) - (IF b = a THEN reserved ELSE 0)
<1>0. reservation[r] \in Row /\ reservation[r].state = "RESERVED"
  BY DEF Settle, TypeOK, NoRow
<1>a. PICK a \in Account : a = reservation[r].account
  BY <1>0 DEF Row
<1>b. PICK reserved \in Nat : reserved = reservation[r].reserved
  BY <1>0 DEF Row
<1> DEFINE charged == Min({used, reserved})
           row == [state |-> "SETTLED", account |-> a, reserved |-> reserved,
                   actual |-> charged]
<1>1. /\ reservation[r] \in Row /\ reservation[r].state = "RESERVED"
      /\ reservation' = [reservation EXCEPT ![r] = row]
      /\ summarized' = summarized
  BY <1>0, <1>a, <1>b DEF Settle
<1>2. a \in Account /\ reserved \in Nat /\ charged \in Nat
  BY <1>a, <1>b, MinOfTwo
<1> HIDE DEF charged
<1>3. /\ reservation'[r] = row
      /\ \A q \in Request \ {r} : reservation'[q] = reservation[q]
  BY <1>1 DEF TypeOK
<1>4. FiniteRows'
  <2>1. {q \in Request : reservation'[q] # NoRow} = {q \in Request : reservation[q] # NoRow}
    BY <1>1, <1>3 DEF NoRow
  <2> QED
    BY <2>1 DEF FiniteRows
<1>5. ASSUME NEW b \in Account, b # a
      PROVE Lifetime(b)' = Lifetime(b) /\ Outstanding(b)' = Outstanding(b)
  <2>1. ASSUME NEW s \in {"RESERVED", "SETTLED"}
        PROVE /\ RowsOf(b, s)' = RowsOf(b, s)
              /\ \A q \in RowsOf(b, s) : reservation'[q] = reservation[q]
    BY <1>a, <1>3, <1>5 DEF RowsOf
  <2>2. SumFunctionOnSet(Actual', RowsOf(b, "SETTLED")')
          = SumFunctionOnSet(Actual, RowsOf(b, "SETTLED"))
    BY <2>1, SumsUntouched
  <2>3. SumFunctionOnSet(Reserved', RowsOf(b, "RESERVED")')
          = SumFunctionOnSet(Reserved, RowsOf(b, "RESERVED"))
    BY <2>1, SumsUntouched
  <2> QED
    BY <1>1, <2>2, <2>3 DEF Lifetime, Charged, Outstanding
<1>6. /\ RowsOf(a, "SETTLED")' = RowsOf(a, "SETTLED") \cup {r}
      /\ RowsOf(a, "RESERVED")' = RowsOf(a, "RESERVED") \ {r}
      /\ r \notin RowsOf(a, "SETTLED") /\ r \in RowsOf(a, "RESERVED")
  BY <1>a, <1>1, <1>3 DEF RowsOf
<1>7. Lifetime(a)' = Lifetime(a) + charged
  <2> DEFINE rows == RowsOf(a, "SETTLED")
  <2>1. /\ IsFiniteSet(rows) /\ r \notin rows
        /\ \A q \in rows : q \in Request /\ Actual[q] \in Nat
    BY <1>6, RowSets
  <2>2. RowsOf(a, "SETTLED")' = rows \cup {r}
    BY <1>6
  <2> HIDE DEF rows
  <2>3. /\ Actual'[r] = charged
        /\ \A q \in rows : Actual'[q] = Actual[q]
    BY <1>3, <2>1 DEF Actual
  <2>4. SumFunctionOnSet(Actual', rows \cup {r}) = Actual'[r] + SumFunctionOnSet(Actual', rows)
    <3>1. \A q \in rows \cup {r} : Actual'[q] \in Int
      BY <1>2, <2>1, <2>3
    <3> QED
      BY ONLY <2>1, <3>1, SumAdd
  <2>5. SumFunctionOnSet(Actual', rows) = SumFunctionOnSet(Actual, rows)
    BY <2>1, <2>3, SumSame
  <2>6. SumFunctionOnSet(Actual, rows) \in Nat
    BY <2>1, SumNat
  <2>7. Charged(RowsOf(a, "SETTLED"))' = charged + Charged(rows)
    BY <2>2, <2>3, <2>4, <2>5, Zenon DEF Charged
  <2> QED
    BY <1>1, <1>2, <2>6, <2>7 DEF Lifetime, Charged, rows, TypeOK
<1>8. Outstanding(a)' = Outstanding(a) - reserved
  <2> DEFINE rows == RowsOf(a, "RESERVED")
  <2>1. /\ IsFiniteSet(rows) /\ r \in rows
        /\ \A q \in rows : q \in Request /\ Reserved[q] \in Nat
    BY <1>6, RowSets
  <2>2. RowsOf(a, "RESERVED")' = rows \ {r}
    BY <1>6
  <2> HIDE DEF rows
  <2>3. /\ Reserved[r] = reserved
        /\ \A q \in rows \ {r} : Reserved'[q] = Reserved[q]
    BY <1>b, <1>3, <2>1 DEF Reserved
  <2>4. /\ SumFunctionOnSet(Reserved, rows) = Reserved[r] + SumFunctionOnSet(Reserved, rows \ {r})
        /\ SumFunctionOnSet(Reserved, rows \ {r}) \in Int
    BY ONLY <2>1, SumRemove
  <2>5. SumFunctionOnSet(Reserved', rows \ {r}) = SumFunctionOnSet(Reserved, rows \ {r})
    <3>1. IsFiniteSet(rows \ {r})
      BY <2>1, FS_RemoveElement
    <3> QED
      BY <2>1, <2>3, <3>1, SumSame
  <2>6. Outstanding(a)' = SumFunctionOnSet(Reserved', rows \ {r})
    BY <2>2, Zenon DEF Outstanding
  <2> QED
    BY <1>2, <2>3, <2>4, <2>5, <2>6 DEF Outstanding, rows
<1>9. \A b \in Account : Lifetime(b) \in Nat /\ Outstanding(b) \in Nat
  BY SumsAreCounts
<1>10. \A b \in Account :
         /\ Lifetime(b)' = Lifetime(b) + (IF b = a THEN charged ELSE 0)
         /\ Outstanding(b)' = Outstanding(b) - (IF b = a THEN reserved ELSE 0)
  BY <1>2, <1>5, <1>7, <1>8, <1>9
<1> QED
  BY <1>a, <1>b, <1>4, <1>10 DEF charged

(* summarize_usage moves charges from the rows to the totals.                *)
LEMMA SummarizeMoves ==
  ASSUME TypeOK, FiniteRows, NEW S \in SUBSET Request, Summarize(S)
  PROVE  /\ FiniteRows'
         /\ summarized' \in [Account -> Nat]
         /\ \A b \in Account :
              Lifetime(b)' = Lifetime(b) /\ Outstanding(b)' = Outstanding(b)
<1>1. /\ \A r \in S : reservation[r].state = "SETTLED"
      /\ summarized' = [a \in Account |->
                          summarized[a] + Charged(S \cap RowsOf(a, "SETTLED"))]
      /\ reservation' = [r \in Request |-> IF r \in S THEN NoRow ELSE reservation[r]]
  BY DEF Summarize
<1>2. \A q \in Request : reservation'[q] = IF q \in S THEN NoRow ELSE reservation[q]
  BY <1>1
<1>3. FiniteRows'
  <2>1. {q \in Request : reservation'[q] # NoRow}
          \in SUBSET {q \in Request : reservation[q] # NoRow}
    BY <1>2
  <2> QED
    BY <2>1, FS_Subset DEF FiniteRows
<1>4. ASSUME NEW b \in Account
      PROVE /\ RowsOf(b, "RESERVED")' = RowsOf(b, "RESERVED")
            /\ \A q \in RowsOf(b, "RESERVED") : reservation'[q] = reservation[q]
            /\ RowsOf(b, "SETTLED")' = RowsOf(b, "SETTLED") \ S
  BY <1>1, <1>2 DEF RowsOf, NoRow
<1>5. ASSUME NEW b \in Account PROVE Outstanding(b)' = Outstanding(b)
  <2>1. SumFunctionOnSet(Reserved', RowsOf(b, "RESERVED")')
          = SumFunctionOnSet(Reserved, RowsOf(b, "RESERVED"))
    BY <1>4, SumsUntouched
  <2> QED
    BY <2>1 DEF Outstanding
<1>6. ASSUME NEW b \in Account
      PROVE  summarized'[b] \in Nat /\ Lifetime(b)' = Lifetime(b)
  <2> DEFINE rows == RowsOf(b, "SETTLED")
             gone == S \cap rows
             kept == rows \ S
  <2>1. IsFiniteSet(rows) /\ \A q \in rows : q \in Request /\ Actual[q] \in Nat
    BY RowSets
  <2>2. /\ IsFiniteSet(gone) /\ IsFiniteSet(kept) /\ gone \cap kept = {}
        /\ gone \cup kept = rows /\ gone \subseteq rows /\ kept \subseteq rows
    BY <2>1, FS_Subset
  <2>3. RowsOf(b, "SETTLED")' = kept
    BY <1>4
  <2>4. /\ summarized'[b] = summarized[b] + SumFunctionOnSet(Actual, gone)
        /\ summarized[b] \in Nat
    BY <1>1 DEF Charged, TypeOK
  <2>5. Lifetime(b) = summarized[b] + SumFunctionOnSet(Actual, rows)
    BY DEF Lifetime, Charged
  <2> HIDE DEF rows, gone, kept
  <2>6. \A q \in kept : Actual'[q] = Actual[q]
    BY <1>2, <2>1, <2>2 DEF Actual, kept
  <2>7. SumFunctionOnSet(Actual', kept) = SumFunctionOnSet(Actual, kept)
    BY <2>1, <2>2, <2>6, SumSame
  <2>8. SumFunctionOnSet(Actual, gone \cup kept)
          = SumFunctionOnSet(Actual, gone) + SumFunctionOnSet(Actual, kept)
    BY <2>1, <2>2, SumUnion
  <2>9. SumFunctionOnSet(Actual, rows) = SumFunctionOnSet(Actual, gone \cup kept)
    BY <2>2, Zenon
  <2>10. /\ SumFunctionOnSet(Actual, gone) \in Nat
         /\ SumFunctionOnSet(Actual, kept) \in Nat
    BY <2>1, <2>2, SumNat
  <2>11. Lifetime(b)' = summarized'[b] + SumFunctionOnSet(Actual', kept)
    BY <2>3, Zenon DEF Lifetime, Charged
  <2> QED
    BY ONLY <2>4, <2>5, <2>7, <2>8, <2>9, <2>10, <2>11
<1>7. summarized' \in [Account -> Nat]
  BY <1>1, <1>6
<1> QED
  BY <1>3, <1>5, <1>6, <1>7

(* The administrators' operations leave the rows and the totals alone.       *)
LEMMA RowsUntouched ==
  ASSUME UNCHANGED <<reservation, summarized>>
  PROVE  /\ FiniteRows' = FiniteRows
         /\ \A b \in Account :
              Lifetime(b)' = Lifetime(b) /\ Outstanding(b)' = Outstanding(b)
<1>1. Actual' = Actual /\ Reserved' = Reserved
  BY DEF Actual, Reserved
<1>2. \A b \in Account, s \in {"RESERVED", "SETTLED"} : RowsOf(b, s)' = RowsOf(b, s)
  BY DEF RowsOf
<1> QED
  BY <1>1, <1>2, Zenon DEF FiniteRows, Lifetime, Outstanding, Charged

----------------------------------------------------------------------------
(* The inductive invariant: the baseline stays below the lifetime usage only *)
(* because the usage never shrinks, whose sums need FiniteRows and the types *)
(* of the rows.                                                              *)
IInv ==
  /\ TypeOK
  /\ ChargeWithinReservation
  /\ FiniteRows
  /\ BaselineWithinLifetime

(* Every step keeps the typing of the store and the bound on charges.        *)
LEMMA StoreStep ==
  TypeOK /\ ChargeWithinReservation /\ FiniteRows /\ [Next]_vars
    => TypeOK' /\ ChargeWithinReservation'
<1> DEFINE Store == TypeOK /\ ChargeWithinReservation
<1> SUFFICES ASSUME Store, FiniteRows, [Next]_vars PROVE Store'
  OBVIOUS
<1>0. \A a \in Account : Lifetime(a) \in Nat
  BY SumsAreCounts
<1> USE QuotaAssumption DEF TypeOK, ChargeWithinReservation, Row, NoRow
<1>1. ASSUME NEW a \in Account, NEW r \in Request, NEW n \in Cost,
             Reserve(a, r, n)
      PROVE Store'
  <2> DEFINE row == [state |-> "RESERVED", account |-> a,
                     reserved |-> n, actual |-> 0]
  <2>0. n \in Nat /\ (unlimited[a] \/ balance[a] >= n)
        /\ balance' = IF unlimited[a] THEN balance
                      ELSE [balance EXCEPT ![a] = @ - n]
    BY <1>1 DEF Reserve
  <2>1. balance' \in [Account -> Nat]
    BY <2>0
  <2>2. reservation' = [reservation EXCEPT ![r] = row] /\ row \in Row
    BY <1>1 DEF Reserve
  <2>3. reservation' \in [Request -> Row \cup {NoRow}]
    BY <2>2
  <2>4. ChargeWithinReservation'
    BY <2>2
  <2> QED
    BY <1>1, <2>1, <2>3, <2>4 DEF Reserve
<1>2. ASSUME NEW r \in Request, NEW used \in Cost \cup {0}, Settle(r, used)
      PROVE Store'
  <2> DEFINE row == reservation[r]
             charged == Min({used, row.reserved})
             settled == [state |-> "SETTLED", account |-> row.account,
                         reserved |-> row.reserved, actual |-> charged]
  <2>1. row \in Row
    BY <1>2 DEF Settle
  <2>2. used \in Nat /\ row.reserved \in Nat /\ row.account \in Account
    BY <2>1
  <2>3. charged \in Nat /\ charged <= row.reserved
    BY <2>2, MinOfTwo
  <2> HIDE DEF charged
  <2>4. reservation' = [reservation EXCEPT ![r] = settled] /\ settled \in Row
    BY <1>2, <2>2, <2>3 DEF Settle, charged
  <2>5. balance' = IF unlimited[row.account] THEN balance
                   ELSE [balance EXCEPT ![row.account] = @ + row.reserved - charged]
    BY <1>2 DEF Settle, charged
  <2>6. balance' \in [Account -> Nat]
    BY <2>2, <2>3, <2>5
  <2>7. reservation' \in [Request -> Row \cup {NoRow}]
    BY <2>4
  <2>8. ChargeWithinReservation'
    BY <2>3, <2>4
  <2> QED
    BY <1>2, <2>6, <2>7, <2>8 DEF Settle
<1>3. ASSUME NEW S \in SUBSET Request, Summarize(S)
      PROVE Store'
  <2>0. summarized' \in [Account -> Nat]
    BY <1>3, SummarizeMoves
  <2>1. /\ reservation' = [r \in Request |-> IF r \in S THEN NoRow ELSE reservation[r]]
        /\ UNCHANGED <<balance, limit, unlimited, baseline>>
    BY <1>3 DEF Summarize
  <2> QED
    BY <2>0, <2>1
<1>4. ASSUME NEW a \in Account, NEW l \in Limit, NEW free \in BOOLEAN,
             UpdateQuota(a, l, free)
      PROVE Store'
  <2> DEFINE used == Lifetime(a) - baseline[a]
             left == l - Max({0, used})
  <2>1. Lifetime(a) \in Int /\ baseline[a] \in Int /\ l \in Int
    BY <1>0
  <2>2. left \in Int
    BY <2>1, MaxWithZero
  <2>3. Max({0, left}) \in Nat
    BY <2>2, MaxWithZero
  <2>4. /\ balance' = [balance EXCEPT ![a] = Max({0, left})]
        /\ limit' = [limit EXCEPT ![a] = l]
        /\ unlimited' = [unlimited EXCEPT ![a] = free]
        /\ UNCHANGED <<baseline, reservation, summarized>>
    BY <1>4 DEF UpdateQuota
  <2> HIDE DEF left, used
  <2>5. balance' \in [Account -> Nat]
    BY <2>3, <2>4
  <2>6. limit' \in [Account -> Limit] /\ unlimited' \in [Account -> BOOLEAN]
    BY <2>4
  <2>7. TypeOK'
    BY <2>4, <2>5, <2>6 DEF TypeOK
  <2>8. ChargeWithinReservation'
    BY <2>4 DEF ChargeWithinReservation
  <2> QED
    BY <2>7, <2>8
<1>5. ASSUME NEW a \in Account, ResetUsage(a)
      PROVE Store'
  <2>1. /\ balance' = [balance EXCEPT ![a] = limit[a]]
        /\ baseline' = [baseline EXCEPT ![a] = Lifetime(a)]
        /\ Lifetime(a) \in Nat
        /\ UNCHANGED <<limit, unlimited, reservation, summarized>>
    BY <1>0, <1>5 DEF ResetUsage
  <2>2. balance' \in [Account -> Nat] /\ baseline' \in [Account -> Nat]
    BY <2>1
  <2>3. TypeOK'
    BY <2>1, <2>2
  <2>4. ChargeWithinReservation'
    BY <2>1
  <2> QED
    BY <2>3, <2>4
<1>6. ASSUME NEW a \in Account, AdminJoins(a)
      PROVE Store'
  BY <1>6 DEF AdminJoins
<1>7. CASE UNCHANGED vars
  BY <1>7 DEF vars
<1> QED
  BY <1>1, <1>2, <1>3, <1>4, <1>5, <1>6, <1>7 DEF Next, Inference

(* Lifetime usage never shrinks, and what is reserved or charged stays a      *)
(* finite table, whatever is settled, summarized or reset.                   *)
LEMMA UsageStep ==
  ASSUME TypeOK, FiniteRows, [Next]_vars
  PROVE  /\ FiniteRows'
         /\ \A b \in Account :
              {Lifetime(b), Lifetime(b)'} \subseteq Nat /\ Lifetime(b) <= Lifetime(b)'
<1>0. \A b \in Account : Lifetime(b) \in Nat
  BY SumsAreCounts
<1>1. ASSUME NEW a \in Account, NEW r \in Request, NEW n \in Cost, Reserve(a, r, n)
      PROVE  FiniteRows' /\ \A b \in Account : Lifetime(b)' \in Nat /\ Lifetime(b) <= Lifetime(b)'
  <2>1. n \in Nat
    BY QuotaAssumption
  <2>2. FiniteRows' /\ \A b \in Account : Lifetime(b)' = Lifetime(b)
    BY <1>1, <2>1, ReserveMoves
  <2> QED
    BY <1>0, <2>2
<1>2. ASSUME NEW r \in Request, NEW used \in Cost \cup {0}, Settle(r, used)
      PROVE  FiniteRows' /\ \A b \in Account : Lifetime(b)' \in Nat /\ Lifetime(b) <= Lifetime(b)'
  <2> DEFINE a == reservation[r].account
             charged == Min({used, reservation[r].reserved})
  <2>1. used \in Nat
    BY QuotaAssumption
  <2>2. reservation[r].reserved \in Nat
    BY <1>2 DEF Settle, TypeOK, Row, NoRow
  <2>3. charged \in Nat
    BY <2>1, <2>2, MinOfTwo
  <2>4. /\ FiniteRows'
        /\ \A b \in Account : Lifetime(b)' = Lifetime(b) + (IF b = a THEN charged ELSE 0)
    BY <1>2, <2>1, SettleMoves
  <2> HIDE DEF a, charged
  <2> QED
    BY <1>0, <2>3, <2>4
<1>3. ASSUME NEW S \in SUBSET Request, Summarize(S)
      PROVE  FiniteRows' /\ \A b \in Account : Lifetime(b)' \in Nat /\ Lifetime(b) <= Lifetime(b)'
  <2>1. FiniteRows' /\ \A b \in Account : Lifetime(b)' = Lifetime(b)
    BY <1>3, SummarizeMoves
  <2> QED
    BY <1>0, <2>1
<1>4. ASSUME UNCHANGED <<reservation, summarized>>
      PROVE  FiniteRows' /\ \A b \in Account : Lifetime(b)' \in Nat /\ Lifetime(b) <= Lifetime(b)'
  <2>1. FiniteRows' /\ \A b \in Account : Lifetime(b)' = Lifetime(b)
    BY <1>4, RowsUntouched
  <2> QED
    BY <1>0, <2>1
<1> QED
  BY <1>0, <1>1, <1>2, <1>3, <1>4
     DEF Next, Inference, UpdateQuota, ResetUsage, AdminJoins, vars

(* Every step keeps the inductive invariant.                                 *)
LEMMA InductiveStep == IInv /\ [Next]_vars => IInv'
<1> SUFFICES ASSUME IInv, [Next]_vars PROVE IInv'
  OBVIOUS
<1>1. TypeOK' /\ ChargeWithinReservation'
  BY StoreStep DEF IInv
<1>2. /\ FiniteRows'
      /\ \A b \in Account :
           {Lifetime(b), Lifetime(b)'} \subseteq Nat /\ Lifetime(b) <= Lifetime(b)'
  BY UsageStep DEF IInv
<1>4. \A b \in Account : baseline'[b] \in {baseline[b], Lifetime(b)}
  BY DEF IInv, TypeOK, Next, Inference, Reserve, Settle, Summarize, UpdateQuota,
     ResetUsage, AdminJoins, vars
<1>5. BaselineWithinLifetime'
  BY <1>2, <1>4 DEF IInv, TypeOK, BaselineWithinLifetime
<1> QED
  BY <1>1, <1>2, <1>5 DEF IInv

LEMMA InductiveInvariant == Spec => []IInv
<1>1. Init => IInv
  <2> SUFFICES ASSUME Init PROVE IInv
    OBVIOUS
  <2> USE DEF Init
  <2>1. balance \in [Account -> Nat] /\ limit \in [Account -> Limit]
    BY QuotaAssumption
  <2>2. /\ baseline \in [Account -> Nat] /\ summarized \in [Account -> Nat]
        /\ unlimited \in [Account -> BOOLEAN]
    OBVIOUS
  <2>3. reservation \in [Request -> Row \cup {NoRow}]
    OBVIOUS
  <2>4. ChargeWithinReservation
    BY DEF ChargeWithinReservation, NoRow
  <2>5. FiniteRows
    <3>1. {r \in Request : reservation[r] # NoRow} = {}
      OBVIOUS
    <3> QED
      BY <3>1, FS_EmptySet DEF FiniteRows
  <2>6. BaselineWithinLifetime
    <3>1. TypeOK
      BY <2>1, <2>2, <2>3 DEF TypeOK
    <3>2. \A a \in Account : Lifetime(a) \in Nat /\ baseline[a] = 0
      BY <2>5, <3>1, SumsAreCounts
    <3> QED
      BY <3>2 DEF BaselineWithinLifetime
  <2> QED
    BY <2>1, <2>2, <2>3, <2>4, <2>5, <2>6 DEF IInv, TypeOK
<1> QED
  BY <1>1, InductiveStep, PTL DEF Spec

(* No balance is ever negative and every row is well formed, whatever an     *)
(* administrator changes while requests are in flight.                       *)
THEOREM BalanceNeverNegative == Spec => []TypeOK
BY InductiveInvariant, PTL DEF IInv

(* settle_quota never charges more than was reserved.                        *)
THEOREM ChargeIsCapped == Spec => []ChargeWithinReservation
BY InductiveInvariant, PTL DEF IInv

(* A second settlement, by whichever path, changes nothing.                  *)
THEOREM FirstSettlementCounts == Spec => SettlementIsFinal
<1>1. IInv /\ [Next]_vars =>
        \A r \in Request :
          reservation[r].state = "SETTLED"
            => reservation'[r] \in {reservation[r], NoRow}
  <2> SUFFICES ASSUME IInv, [Next]_vars, NEW x \in Request,
                      reservation[x].state = "SETTLED"
               PROVE reservation'[x] \in {reservation[x], NoRow}
    OBVIOUS
  <2> USE DEF IInv, TypeOK
  <2>1. CASE \E a \in Account, r \in Request, n \in Cost : Reserve(a, r, n)
    <3>1. reservation[x] # NoRow
      BY DEF NoRow
    <3> QED
      BY <2>1, <3>1 DEF Reserve
  <2>2. CASE \E r \in Request, used \in Cost \cup {0} : Settle(r, used)
    BY <2>2 DEF Settle
  <2>3. CASE \E S \in SUBSET Request : Summarize(S)
    BY <2>3 DEF Summarize
  <2>4. CASE UNCHANGED reservation
    BY <2>4
  <2> QED
    BY <2>1, <2>2, <2>3, <2>4
       DEF Next, Inference, UpdateQuota, ResetUsage, AdminJoins, vars
<1> QED
  BY <1>1, InductiveInvariant, PTL DEF Spec, SettlementIsFinal

(* What update_quota and the dashboards subtract is never more than was      *)
(* used: the usage of the current period is never negative.                  *)
THEOREM PeriodUsageNeverNegative == Spec => []BaselineWithinLifetime
BY InductiveInvariant, PTL DEF IInv

(* Lifetime totals survive settlements, resets and the deletion of raw rows. *)
THEOREM LifetimeIsMonotone == Spec => LifetimeNeverShrinks
<1>1. IInv /\ [Next]_vars => \A a \in Account : Lifetime(a) <= Lifetime(a)'
  BY UsageStep DEF IInv
<1> QED
  BY <1>1, InductiveInvariant, PTL DEF Spec, LifetimeNeverShrinks

(* Reserving, settling and summarizing only move the tokens of a limited     *)
(* account between its balance, its reservations and its usage.              *)
THEOREM TokensAreConserved == Spec => TokensConserved
<1> DEFINE Kept(a) == \/ unlimited[a]
                      \/ \E l \in Limit, free \in BOOLEAN : UpdateQuota(a, l, free)
                      \/ ResetUsage(a)
                      \/ Tokens(a)' = Tokens(a)
<1>1. ASSUME IInv, [Next]_vars, NEW b \in Account PROVE Kept(b)
  <2>0. /\ Lifetime(b) \in Nat /\ Outstanding(b) \in Nat /\ balance[b] \in Nat
        /\ TypeOK /\ FiniteRows
    BY <1>1, SumsAreCounts DEF IInv, TypeOK
  <2>1. ASSUME NEW a \in Account, NEW r \in Request, NEW n \in Cost, Reserve(a, r, n),
               ~unlimited[b]
        PROVE  Tokens(b)' = Tokens(b)
    <3>1. n \in Nat
      BY QuotaAssumption
    <3>2. /\ Lifetime(b)' = Lifetime(b)
          /\ Outstanding(b)' = Outstanding(b) + (IF b = a THEN n ELSE 0)
      BY <2>0, <2>1, <3>1, ReserveMoves
    <3>3. balance'[b] = balance[b] - (IF b = a THEN n ELSE 0)
      BY <2>0, <2>1, <3>1 DEF Reserve, TypeOK
    <3> QED
      BY <2>0, <3>1, <3>2, <3>3 DEF Tokens
  <2>2. ASSUME NEW r \in Request, NEW used \in Cost \cup {0}, Settle(r, used), ~unlimited[b]
        PROVE  Tokens(b)' = Tokens(b)
    <3> DEFINE a == reservation[r].account
               reserved == reservation[r].reserved
               charged == Min({used, reserved})
    <3>0. reservation[r] \in Row
      BY <2>0, <2>2 DEF Settle, TypeOK, NoRow
    <3>1. used \in Nat /\ reserved \in Nat /\ a \in Account
      <4>1. used \in Nat
        BY QuotaAssumption
      <4> QED
        BY <3>0, <4>1 DEF Row
    <3>2. charged \in Nat
      BY <3>1, MinOfTwo
    <3>3. /\ Lifetime(b)' = Lifetime(b) + (IF b = a THEN charged ELSE 0)
          /\ Outstanding(b)' = Outstanding(b) - (IF b = a THEN reserved ELSE 0)
      BY <2>0, <2>2, <3>1, SettleMoves
    <3>4. balance' = IF unlimited[a] THEN balance
                     ELSE [balance EXCEPT ![a] = @ + reserved - charged]
      BY <2>2 DEF Settle
    <3> HIDE DEF a, reserved, charged
    <3>5. balance'[b] = balance[b] + (IF b = a THEN reserved - charged ELSE 0)
      BY <2>0, <2>2, <3>1, <3>2, <3>4 DEF TypeOK
    <3> QED
      BY <2>0, <3>1, <3>2, <3>3, <3>5 DEF Tokens
  <2>3. ASSUME NEW S \in SUBSET Request, Summarize(S) PROVE Tokens(b)' = Tokens(b)
    <3>1. Lifetime(b)' = Lifetime(b) /\ Outstanding(b)' = Outstanding(b)
      BY <2>0, <2>3, SummarizeMoves
    <3> QED
      BY <2>3, <3>1 DEF Tokens, Summarize
  <2>4. ASSUME UNCHANGED <<reservation, summarized>>, balance'[b] = balance[b]
        PROVE  Tokens(b)' = Tokens(b)
    BY <2>4, RowsUntouched DEF Tokens
  <2>5. ASSUME NEW a \in Account, NEW l \in Limit, NEW free \in BOOLEAN,
               UpdateQuota(a, l, free)
        PROVE  Kept(b)
    <3>1. CASE a # b
      BY <2>0, <2>4, <2>5, <3>1 DEF UpdateQuota, TypeOK
    <3>2. CASE a = b
      BY <2>5, <3>2
    <3> QED
      BY <3>1, <3>2
  <2>6. ASSUME NEW a \in Account, ResetUsage(a) PROVE Kept(b)
    <3>1. CASE a # b
      BY <2>0, <2>4, <2>6, <3>1 DEF ResetUsage, TypeOK
    <3>2. CASE a = b
      BY <2>6, <3>2
    <3> QED
      BY <3>1, <3>2
  <2>7. ASSUME NEW a \in Account, AdminJoins(a) PROVE Kept(b)
    BY <2>4, <2>7 DEF AdminJoins
  <2>8. CASE UNCHANGED vars
    BY <2>4, <2>8 DEF vars
  <2> QED
    BY <1>1, <2>1, <2>2, <2>3, <2>5, <2>6, <2>7, <2>8 DEF Next, Inference
<1>2. IInv /\ [Next]_vars => \A a \in Account : Kept(a)
  BY <1>1
<1> QED
  BY <1>2, InductiveInvariant, PTL DEF Spec, TokensConserved
=============================================================================
