------------------------- MODULE TokenTable_proofs -------------------------
(***************************************************************************)
(* Proofs about TokenTable: its invariant, what the rotation and the other  *)
(* statements promise, and that they implement SessionLedger.               *)
(***************************************************************************)
EXTENDS TokenTable, TLAPS

----------------------------------------------------------------------------
(* The invariant.  Where an action writes a connection's record, a first    *)
(* step says what becomes of the variables, and the others go on from there.*)

LEMMA CheckKeeps ==
  ASSUME IInv, NEW r \in Reqs, NEW t \in Tokens, Check(r, t)
  PROVE  IInv'
<1>w. /\ tx'[r] \in Work /\ tx'[r].pc = "update" /\ tx'[r].tok = t
      /\ \A q \in Reqs \ {r} : tx'[q] = tx[q]
      /\ tx' \in [Reqs -> Work]
      /\ tx[r].pc = "idle"
      /\ row[t] = "live"
      /\ UNCHANGED <<row, holder, present, share, deleting, born>>
  BY DEF Check, IInv, TypeOK, Idle, Work, PCs, At
<1>1. TypeOK'
  BY TableAssumption, <1>w, SMTT(30) DEF IInv, TypeOK, At, Issued
<1>2. RowsOK'
  BY TableAssumption, <1>w, SMTT(30) DEF IInv, TypeOK, At, Issued, RowsOK, Recorded,
     HeldOK, Birth
<1>3. HeldOK'
  BY TableAssumption, <1>w, SMTT(30) DEF IInv, TypeOK, At, Issued, HeldOK, AccountOK,
     SettledOK, Settled
<1>4. SettledOK'
  BY TableAssumption, <1>w, SMTT(30) DEF IInv, TypeOK, At, Issued, Work, SettledOK,
     Settled, HeldOK, AccountOK, RowsOK, Recorded
<1>5. AccountOK'
  BY TableAssumption, <1>w, SMTT(30) DEF IInv, TypeOK, At, Issued, AccountOK, SettledOK,
     Settled, HeldOK, RowsOK, Recorded
<1> QED BY <1>1, <1>2, <1>3, <1>4, <1>5 DEF IInv

LEMMA UpdateOldKeeps ==
  ASSUME IInv, NEW r \in Reqs, UpdateOld(r)
  PROVE  IInv'
<1>w. /\ tx'[r] \in Work /\ tx'[r].pc = "insert" /\ tx'[r].tok = tx[r].tok
      /\ \A q \in Reqs \ {r} : tx'[q] = tx[q]
      /\ tx' \in [Reqs -> Work]
      /\ tx[r].pc = "update"
      /\ holder[tx[r].tok] = NoReq
      /\ holder' = IF row[tx[r].tok] = "live" THEN [holder EXCEPT ![tx[r].tok] = r] ELSE holder
      /\ UNCHANGED <<row, present, share, deleting, born>>
  BY DEF UpdateOld, IInv, TypeOK, Idle, Work, PCs, At, Free
<1>u. tx[r].tok \in Tokens
  BY <1>w DEF IInv, SettledOK, Settled, At
<1>1. TypeOK'
  BY TableAssumption, <1>w, <1>u, SMTT(30) DEF IInv, TypeOK, At, Issued
<1>2. RowsOK'
  BY TableAssumption, <1>w, <1>u, SMTT(30) DEF IInv, TypeOK, At, Issued, RowsOK,
     Recorded, HeldOK, Birth
<1>3. HeldOK'
  BY TableAssumption, <1>w, <1>u, SMTT(30) DEF IInv, TypeOK, At, Issued, HeldOK,
     AccountOK, SettledOK, Settled
<1>4. SettledOK'
  BY TableAssumption, <1>w, <1>u, SMTT(30) DEF IInv, TypeOK, At, Issued, Work,
     SettledOK, Settled, HeldOK, AccountOK, RowsOK, Recorded
<1>5. AccountOK'
  BY TableAssumption, <1>w, <1>u, SMTT(30) DEF IInv, TypeOK, At, Issued, AccountOK,
     SettledOK, Settled, HeldOK, RowsOK, Recorded
<1> QED BY <1>1, <1>2, <1>3, <1>4, <1>5 DEF IInv

LEMMA RollbackKeeps ==
  ASSUME IInv, NEW r \in Reqs, Rollback(r)
  PROVE  IInv'
<1>1. TypeOK'
  BY TableAssumption, SMTT(30) DEF IInv, TypeOK, At, Issued, Work, Birth, PCs, Idle,
     Free, Held, Release, Rollback
<1>2. RowsOK'
  BY TableAssumption, SMTT(30) DEF IInv, TypeOK, At, Issued, Work, Birth, PCs, Idle,
     Free, Held, Release, Rollback, RowsOK, Recorded, HeldOK, Birth
<1>3. HeldOK'
  BY TableAssumption, SMTT(30) DEF IInv, TypeOK, At, Issued, Work, Birth, PCs, Idle,
     Free, Held, Release, Rollback, HeldOK, AccountOK, SettledOK, Settled
<1>4. SettledOK'
  BY TableAssumption, SMTT(30) DEF IInv, TypeOK, At, Issued, Work, Birth, PCs, Idle,
     Free, Held, Release, Rollback, Work, SettledOK, Settled, HeldOK, AccountOK, RowsOK,
     Recorded
<1>5. AccountOK'
  BY TableAssumption, SMTT(30) DEF IInv, TypeOK, At, Issued, Work, Birth, PCs, Idle,
     Free, Held, Release, Rollback, AccountOK, SettledOK, Settled, HeldOK, RowsOK,
     Recorded
<1> QED BY <1>1, <1>2, <1>3, <1>4, <1>5 DEF IInv

LEMMA InsertKeeps ==
  ASSUME IInv, NEW r \in Reqs, Insert(r)
  PROVE  IInv'
<1>a. CASE present
  <2>1. PICK n \in Fresh : tx' = [tx EXCEPT ![r] = [@ EXCEPT !.pc = "commit", !.new = n]]
    BY <1>a DEF Insert
  <2>2. n \in Tokens /\ ~Issued(n) /\ \A q \in Reqs : tx[q].new # n
    BY <2>1 DEF Fresh
  <2>w. /\ tx'[r] \in Work /\ tx'[r].pc = "commit" /\ tx'[r].tok = tx[r].tok /\ tx'[r].new = n
        /\ \A q \in Reqs \ {r} : tx'[q] = tx[q]
        /\ tx' \in [Reqs -> Work]
    BY <2>1, <2>2 DEF IInv, TypeOK, Work, PCs
  <2>v. /\ tx[r].pc = "insert" /\ present /\ deleting = NoReq /\ share' = share \union {r}
        /\ UNCHANGED <<row, holder, present, deleting, born>>
    BY <1>a DEF Insert, At
  <2>3. TypeOK'
    BY <2>w, <2>v DEF IInv, TypeOK
  <2>4. RowsOK'
    BY <2>v DEF IInv, RowsOK, Recorded, Issued
  <2>5. HeldOK'
    BY <2>w, <2>v DEF IInv, TypeOK, HeldOK, At
  <2>6. SettledOK'
    BY <2>2, <2>w, <2>v DEF IInv, TypeOK, SettledOK, Settled, At, Issued
  <2>7. AccountOK'
    BY TableAssumption, <2>w, <2>v DEF IInv, TypeOK, AccountOK, At
  <2> QED BY <2>3, <2>4, <2>5, <2>6, <2>7 DEF IInv
<1>b. CASE ~present
  <2>1. Release(r) /\ UNCHANGED <<row, present, born>> /\ ~At(r, {"idle"})
    BY <1>b DEF Insert, At
  <2> QED BY <2>1, RollbackKeeps DEF Rollback
<1> QED BY <1>a, <1>b

LEMMA CommitKeeps ==
  ASSUME IInv, NEW r \in Reqs, Commit(r)
  PROVE  IInv'
<1> DEFINE old == tx[r].tok
           n == tx[r].new
<1>0. /\ tx[r].pc = "commit"
      /\ old \in Tokens /\ Issued(old) /\ n \in Tokens /\ ~Issued(n)
      /\ holder[old] = r \/ row[old] # "live"
      /\ \A q \in Reqs \ {r} : tx[q].pc = "commit" => tx[q].new # n
  BY DEF Commit, IInv, SettledOK, Settled, At
<1>1. /\ r \in share /\ present /\ deleting = NoReq
      /\ \A q \in Reqs : tx[q].pc # "cascade"
      /\ \A t \in Tokens : holder[t] = r => t = old
  BY <1>0, TableAssumption DEF IInv, TypeOK, AccountOK, HeldOK, At
<1>w. /\ tx'[r] \in Work /\ tx'[r].pc = "idle"
      /\ \A q \in Reqs \ {r} : tx'[q] = tx[q]
      /\ tx' \in [Reqs -> Work]
  BY DEF Commit, Release, Idle, Work, PCs, IInv, TypeOK
<1>v. /\ row' = [t \in Tokens |-> IF t = n THEN "live" ELSE IF holder[t] = r THEN "revoked" ELSE row[t]]
      /\ holder' = [t \in Tokens |-> IF holder[t] = r THEN NoReq ELSE holder[t]]
      /\ share' = share \ {r}
      /\ deleting' = deleting
      /\ present' = present
  BY <1>1 DEF Commit, Release, Held
<1>u. /\ born' \in [Tokens -> Birth]
      /\ born'[n].root = born[old].root /\ born'[n].parent = old /\ born'[n].issued
      /\ \A t \in Tokens \ {n} : born'[t] = born[t]
  BY <1>0 DEF Commit, Birth, IInv, TypeOK
<1> HIDE DEF old, n
<1>2. TypeOK'
  BY <1>w, <1>v, <1>u DEF IInv, TypeOK
<1>3. RowsOK'
  <2> SUFFICES ASSUME NEW t \in Tokens PROVE Recorded(t)'
    BY DEF RowsOK
  <2>1. row'[old] # "live"
    BY <1>0, <1>v DEF IInv, TypeOK
  <2>2. CASE t = n
    BY <2>1, <2>2, <1>0, <1>v, <1>u DEF Recorded, Issued
  <2>3. CASE t # n
    BY <2>3, <1>0, <1>1, <1>v, <1>u DEF IInv, TypeOK, RowsOK, Recorded, Issued, Birth
  <2> QED BY <2>2, <2>3
<1>4. HeldOK'
  BY <1>0, <1>1, <1>w, <1>v, TableAssumption DEF IInv, TypeOK, HeldOK, At, Issued,
     RowsOK, Recorded
<1>5. SettledOK'
  BY <1>0, <1>1, <1>w, <1>v, <1>u, SMTT(60) DEF IInv, TypeOK, Work, SettledOK, Settled,
     At, Issued
<1>6. AccountOK'
  BY <1>0, <1>1, <1>w, <1>v DEF IInv, TypeOK, AccountOK, At
<1> QED BY <1>2, <1>3, <1>4, <1>5, <1>6 DEF IInv

LEMMA LoginInsertKeeps ==
  ASSUME IInv, NEW r \in Reqs, NEW t \in Tokens, LoginInsert(r, t)
  PROVE  IInv'
<1>1. TypeOK'
  BY TableAssumption, SMTT(30) DEF IInv, TypeOK, At, Issued, Work, Birth, PCs, Idle,
     Free, Held, Release, LoginInsert, Fresh
<1>2. RowsOK'
  BY TableAssumption, SMTT(30) DEF IInv, TypeOK, At, Issued, Work, Birth, PCs, Idle,
     Free, Held, Release, LoginInsert, RowsOK, Recorded, HeldOK, Birth, Fresh
<1>3. HeldOK'
  BY TableAssumption, SMTT(30) DEF IInv, TypeOK, At, Issued, Work, Birth, PCs, Idle,
     Free, Held, Release, LoginInsert, HeldOK, AccountOK, SettledOK, Settled, Fresh
<1>4. SettledOK'
  BY TableAssumption, SMTT(30) DEF IInv, TypeOK, At, Issued, Work, Birth, PCs, Idle,
     Free, Held, Release, LoginInsert, Work, SettledOK, Settled, HeldOK, AccountOK,
     RowsOK, Recorded, Fresh
<1>5. AccountOK'
  BY TableAssumption, SMTT(30) DEF IInv, TypeOK, At, Issued, Work, Birth, PCs, Idle,
     Free, Held, Release, LoginInsert, AccountOK, SettledOK, Settled, HeldOK, RowsOK,
     Recorded, Fresh
<1> QED BY <1>1, <1>2, <1>3, <1>4, <1>5 DEF IInv

LEMMA LogoutLookupKeeps ==
  ASSUME IInv, NEW r \in Reqs, NEW t \in Tokens, LogoutLookup(r, t)
  PROVE  IInv'
<1>w. /\ tx'[r] \in Work /\ tx'[r].pc = "revokeOne" /\ tx'[r].tok = t
      /\ \A q \in Reqs \ {r} : tx'[q] = tx[q]
      /\ tx' \in [Reqs -> Work]
      /\ tx[r].pc = "idle"
      /\ row[t] # "none"
      /\ UNCHANGED <<row, holder, present, share, deleting, born>>
  BY DEF LogoutLookup, IInv, TypeOK, Idle, Work, PCs, At
<1>1. TypeOK'
  BY TableAssumption, <1>w, SMTT(30) DEF IInv, TypeOK, At, Issued
<1>2. RowsOK'
  BY TableAssumption, <1>w, SMTT(30) DEF IInv, TypeOK, At, Issued, RowsOK, Recorded,
     HeldOK, Birth
<1>3. HeldOK'
  BY TableAssumption, <1>w, SMTT(30) DEF IInv, TypeOK, At, Issued, HeldOK, AccountOK,
     SettledOK, Settled
<1>4. SettledOK'
  BY TableAssumption, <1>w, SMTT(30) DEF IInv, TypeOK, At, Issued, Work, SettledOK,
     Settled, HeldOK, AccountOK, RowsOK, Recorded
<1>5. AccountOK'
  BY TableAssumption, <1>w, SMTT(30) DEF IInv, TypeOK, At, Issued, AccountOK, SettledOK,
     Settled, HeldOK, RowsOK, Recorded
<1> QED BY <1>1, <1>2, <1>3, <1>4, <1>5 DEF IInv

LEMMA RevokeOneKeeps ==
  ASSUME IInv, NEW r \in Reqs, RevokeOne(r)
  PROVE  IInv'
<1>w. /\ tx'[r] \in Work /\ tx'[r].pc = "idle"
      /\ \A q \in Reqs \ {r} : tx'[q] = tx[q]
      /\ tx' \in [Reqs -> Work]
      /\ tx[r].pc = "revokeOne"
      /\ holder[tx[r].tok] = NoReq
      /\ row' = [row EXCEPT ![tx[r].tok] = IF @ = "live" THEN "revoked" ELSE @]
      /\ holder' = [u \in Tokens |-> IF holder[u] = r THEN NoReq ELSE holder[u]]
      /\ share' = share \ {r}
      /\ deleting' = IF deleting = r THEN NoReq ELSE deleting
      /\ UNCHANGED <<present, born>>
  BY DEF RevokeOne, IInv, TypeOK, Idle, Work, PCs, At, Release, Free
<1>u. tx[r].tok \in Tokens
  BY <1>w DEF IInv, SettledOK, Settled, At
<1>1. TypeOK'
  BY TableAssumption, <1>w, <1>u, SMTT(30) DEF IInv, TypeOK, At, Issued
<1>2. RowsOK'
  BY TableAssumption, <1>w, <1>u, SMTT(30) DEF IInv, TypeOK, At, Issued, RowsOK,
     Recorded, HeldOK, Birth
<1>3. HeldOK'
  BY TableAssumption, <1>w, <1>u, SMTT(30) DEF IInv, TypeOK, At, Issued, HeldOK,
     AccountOK, SettledOK, Settled
<1>4. SettledOK'
  BY TableAssumption, <1>w, <1>u, SMTT(30) DEF IInv, TypeOK, At, Issued, Work,
     SettledOK, Settled, HeldOK, AccountOK, RowsOK, Recorded
<1>5. AccountOK'
  BY TableAssumption, <1>w, <1>u, SMTT(30) DEF IInv, TypeOK, At, Issued, AccountOK,
     SettledOK, Settled, HeldOK, RowsOK, Recorded
<1> QED BY <1>1, <1>2, <1>3, <1>4, <1>5 DEF IInv

LEMMA SweepStartKeeps ==
  ASSUME IInv, NEW r \in Reqs, SweepStart(r)
  PROVE  IInv'
<1>w. /\ tx'[r] \in Work /\ tx'[r].pc = "sweep" /\ tx'[r].found = tx'[r].todo /\ tx'[r].todo = {t \in Tokens : row[t] = "live"}
      /\ \A q \in Reqs \ {r} : tx'[q] = tx[q]
      /\ tx' \in [Reqs -> Work]
      /\ tx[r].pc = "idle"
      /\ UNCHANGED <<row, holder, present, share, deleting, born>>
  BY DEF SweepStart, IInv, TypeOK, Idle, Work, PCs, At
<1>1. TypeOK'
  BY TableAssumption, <1>w, SMTT(30) DEF IInv, TypeOK, At, Issued
<1>2. RowsOK'
  BY TableAssumption, <1>w, SMTT(30) DEF IInv, TypeOK, At, Issued, RowsOK, Recorded,
     HeldOK, Birth
<1>3. HeldOK'
  BY TableAssumption, <1>w, SMTT(30) DEF IInv, TypeOK, At, Issued, HeldOK, AccountOK,
     SettledOK, Settled
<1>4. SettledOK'
  BY TableAssumption, <1>w, SMTT(30) DEF IInv, TypeOK, At, Issued, Work, SettledOK,
     Settled, HeldOK, AccountOK, RowsOK, Recorded
<1>5. AccountOK'
  BY TableAssumption, <1>w, SMTT(30) DEF IInv, TypeOK, At, Issued, AccountOK, SettledOK,
     Settled, HeldOK, RowsOK, Recorded
<1> QED BY <1>1, <1>2, <1>3, <1>4, <1>5 DEF IInv

LEMMA SweepRowKeeps ==
  ASSUME IInv, NEW r \in Reqs, NEW t \in Tokens, SweepRow(r, t)
  PROVE  IInv'
<1>1. TypeOK'
  BY TableAssumption, SMTT(30) DEF IInv, TypeOK, At, Issued, Work, Birth, PCs, Idle,
     Free, Held, Release, SweepRow
<1>2. RowsOK'
  BY TableAssumption, SMTT(30) DEF IInv, TypeOK, At, Issued, Work, Birth, PCs, Idle,
     Free, Held, Release, SweepRow, RowsOK, Recorded, HeldOK, Birth
<1>3. HeldOK'
  BY TableAssumption, SMTT(30) DEF IInv, TypeOK, At, Issued, Work, Birth, PCs, Idle,
     Free, Held, Release, SweepRow, HeldOK, AccountOK, SettledOK, Settled
<1>4. SettledOK'
  BY TableAssumption, SMTT(30) DEF IInv, TypeOK, At, Issued, Work, Birth, PCs, Idle,
     Free, Held, Release, SweepRow, Work, SettledOK, Settled, HeldOK, AccountOK, RowsOK,
     Recorded
<1>5. AccountOK'
  BY TableAssumption, SMTT(30) DEF IInv, TypeOK, At, Issued, Work, Birth, PCs, Idle,
     Free, Held, Release, SweepRow, AccountOK, SettledOK, Settled, HeldOK, RowsOK,
     Recorded
<1> QED BY <1>1, <1>2, <1>3, <1>4, <1>5 DEF IInv

LEMMA SweepCommitKeeps ==
  ASSUME IInv, NEW r \in Reqs, SweepCommit(r)
  PROVE  IInv'
<1>1. TypeOK'
  BY TableAssumption, SMTT(30) DEF IInv, TypeOK, At, Issued, Work, Birth, PCs, Idle,
     Free, Held, Release, SweepCommit
<1>2. RowsOK'
  BY TableAssumption, SMTT(30) DEF IInv, TypeOK, At, Issued, Work, Birth, PCs, Idle,
     Free, Held, Release, SweepCommit, RowsOK, Recorded, HeldOK, Birth
<1>3. HeldOK'
  BY TableAssumption, SMTT(30) DEF IInv, TypeOK, At, Issued, Work, Birth, PCs, Idle,
     Free, Held, Release, SweepCommit, HeldOK, AccountOK, SettledOK, Settled
<1>4. SettledOK'
  BY TableAssumption, SMTT(30) DEF IInv, TypeOK, At, Issued, Work, Birth, PCs, Idle,
     Free, Held, Release, SweepCommit, Work, SettledOK, Settled, HeldOK, AccountOK,
     RowsOK, Recorded
<1>5. AccountOK'
  BY TableAssumption, SMTT(30) DEF IInv, TypeOK, At, Issued, Work, Birth, PCs, Idle,
     Free, Held, Release, SweepCommit, AccountOK, SettledOK, Settled, HeldOK, RowsOK,
     Recorded
<1> QED BY <1>1, <1>2, <1>3, <1>4, <1>5 DEF IInv

LEMMA DeleteStartKeeps ==
  ASSUME IInv, NEW r \in Reqs, DeleteStart(r)
  PROVE  IInv'
<1>w. /\ tx'[r] \in Work /\ tx'[r].pc = "cascade" /\ tx'[r].todo = {t \in Tokens : row[t] # "none"}
      /\ \A q \in Reqs \ {r} : tx'[q] = tx[q]
      /\ tx' \in [Reqs -> Work]
      /\ tx[r].pc = "idle"
      /\ present
      /\ deleting = NoReq
      /\ share = {}
      /\ deleting' = r
      /\ UNCHANGED <<row, holder, present, share, born>>
  BY DEF DeleteStart, IInv, TypeOK, Idle, Work, PCs, At
<1>1. TypeOK'
  BY TableAssumption, <1>w, SMTT(30) DEF IInv, TypeOK, At, Issued
<1>2. RowsOK'
  BY TableAssumption, <1>w, SMTT(30) DEF IInv, TypeOK, At, Issued, RowsOK, Recorded,
     HeldOK, Birth
<1>3. HeldOK'
  BY TableAssumption, <1>w, SMTT(30) DEF IInv, TypeOK, At, Issued, HeldOK, AccountOK,
     SettledOK, Settled
<1>4. SettledOK'
  BY TableAssumption, <1>w, SMTT(30) DEF IInv, TypeOK, At, Issued, Work, SettledOK,
     Settled, HeldOK, AccountOK, RowsOK, Recorded
<1>5. AccountOK'
  BY TableAssumption, <1>w, SMTT(30) DEF IInv, TypeOK, At, Issued, AccountOK, SettledOK,
     Settled, HeldOK, RowsOK, Recorded
<1> QED BY <1>1, <1>2, <1>3, <1>4, <1>5 DEF IInv

LEMMA CascadeRowKeeps ==
  ASSUME IInv, NEW r \in Reqs, NEW t \in Tokens, CascadeRow(r, t)
  PROVE  IInv'
<1>1. TypeOK'
  BY TableAssumption, SMTT(30) DEF IInv, TypeOK, At, Issued, Work, Birth, PCs, Idle,
     Free, Held, Release, CascadeRow
<1>2. RowsOK'
  BY TableAssumption, SMTT(30) DEF IInv, TypeOK, At, Issued, Work, Birth, PCs, Idle,
     Free, Held, Release, CascadeRow, RowsOK, Recorded, HeldOK, Birth
<1>3. HeldOK'
  BY TableAssumption, SMTT(30) DEF IInv, TypeOK, At, Issued, Work, Birth, PCs, Idle,
     Free, Held, Release, CascadeRow, HeldOK, AccountOK, SettledOK, Settled
<1>4. SettledOK'
  BY TableAssumption, SMTT(30) DEF IInv, TypeOK, At, Issued, Work, Birth, PCs, Idle,
     Free, Held, Release, CascadeRow, Work, SettledOK, Settled, HeldOK, AccountOK,
     RowsOK, Recorded
<1>5. AccountOK'
  BY TableAssumption, SMTT(30) DEF IInv, TypeOK, At, Issued, Work, Birth, PCs, Idle,
     Free, Held, Release, CascadeRow, AccountOK, SettledOK, Settled, HeldOK, RowsOK,
     Recorded
<1> QED BY <1>1, <1>2, <1>3, <1>4, <1>5 DEF IInv

LEMMA DeleteCommitKeeps ==
  ASSUME IInv, NEW r \in Reqs, DeleteCommit(r)
  PROVE  IInv'
<1>w. /\ tx'[r] \in Work /\ tx'[r].pc = "idle"
      /\ \A q \in Reqs \ {r} : tx'[q] = tx[q]
      /\ tx' \in [Reqs -> Work]
      /\ tx[r].pc = "cascade"
      /\ tx[r].todo = {}
      /\ present' = FALSE
      /\ present' \in BOOLEAN
      /\ row' = [t \in Tokens |-> IF holder[t] = r THEN "none" ELSE row[t]]
      /\ holder' = [u \in Tokens |-> IF holder[u] = r THEN NoReq ELSE holder[u]]
      /\ share' = share \ {r}
      /\ deleting' = IF deleting = r THEN NoReq ELSE deleting
      /\ UNCHANGED <<born>>
  BY DEF DeleteCommit, IInv, TypeOK, Idle, Work, PCs, At, Release, Held
<1>1. TypeOK'
  BY TableAssumption, <1>w, SMTT(30) DEF IInv, TypeOK, At, Issued
<1>2. RowsOK'
  BY TableAssumption, <1>w, SMTT(30) DEF IInv, TypeOK, At, Issued, RowsOK, Recorded,
     HeldOK, Birth
<1>3. HeldOK'
  BY TableAssumption, <1>w, SMTT(30) DEF IInv, TypeOK, At, Issued, HeldOK, AccountOK,
     SettledOK, Settled
<1>4. SettledOK'
  BY TableAssumption, <1>w, SMTT(30) DEF IInv, TypeOK, At, Issued, Work, SettledOK,
     Settled, HeldOK, AccountOK, RowsOK, Recorded
<1>5. AccountOK'
  BY TableAssumption, <1>w, SMTT(30) DEF IInv, TypeOK, At, Issued, AccountOK, SettledOK,
     Settled, HeldOK, RowsOK, Recorded
<1> QED BY <1>1, <1>2, <1>3, <1>4, <1>5 DEF IInv

\* The inductive invariant: who holds which row and why, and what a transaction has done so far.
THEOREM Invariance == Spec => []IInv
<1>1. Init => IInv
  BY TableAssumption DEF Init, IInv, TypeOK, RowsOK, Recorded, HeldOK, SettledOK, Settled,
     AccountOK, Idle, Work, PCs, Birth, At, Issued
<1>2. IInv /\ [Next]_vars => IInv'
  <2> SUFFICES ASSUME IInv, [Next]_vars PROVE IInv'
    OBVIOUS
  <2>1. ASSUME NEW r \in Reqs, Arrive(r) PROVE IInv'
    BY <2>1, CheckKeeps, LoginInsertKeeps, LogoutLookupKeeps, SweepStartKeeps,
       DeleteStartKeeps
    DEF Arrive
  <2>2. ASSUME NEW r \in Reqs, Continue(r) PROVE IInv'
    BY <2>2, UpdateOldKeeps, InsertKeeps, CommitKeeps, RevokeOneKeeps, SweepRowKeeps,
       SweepCommitKeeps, CascadeRowKeeps, DeleteCommitKeeps
    DEF Continue
  <2>3. ASSUME NEW r \in Reqs, Rollback(r) PROVE IInv'
    BY <2>3, RollbackKeeps
  <2>4. CASE UNCHANGED vars
    BY <2>4 DEF vars, IInv, TypeOK, RowsOK, Recorded, HeldOK, SettledOK, Settled,
       AccountOK, At, Issued
  <2> QED BY <2>1, <2>2, <2>3, <2>4 DEF Next
<1> QED BY <1>1, <1>2, PTL DEF Spec

----------------------------------------------------------------------------
(* What follows from it.                                                    *)

\* A token with a committed successor is not live: repo.go:198-200, first half.
THEOREM RotationReplaces == Spec => []OldAndNewNeverBothValid
<1>1. IInv => OldAndNewNeverBothValid
  BY DEF IInv, RowsOK, Recorded, OldAndNewNeverBothValid
<1> QED BY <1>1, Invariance, PTL

\* No session row outlives its account: migrations/00008:12.
THEOREM Orphans == Spec => []NoOrphans
<1>1. IInv => NoOrphans
  BY DEF IInv, AccountOK, NoOrphans
<1> QED BY <1>1, Invariance, PTL

\* A step that changes a row is one of four commits.
LEMMA Writers ==
  ASSUME IInv, [Next]_vars
  PROVE  \/ row' = row
         \/ \E r \in Reqs : Commit(r) \/ RevokeOne(r) \/ SweepCommit(r) \/ DeleteCommit(r)
         \/ \E r \in Reqs, n \in Tokens : LoginInsert(r, n)
BY DEF Next, vars, Arrive, Continue, Check, LogoutLookup, SweepStart, DeleteStart,
   UpdateOld,
   Insert, SweepRow, CascadeRow, Rollback

\* What a transaction that commits holds.
LEMMA Holds ==
  ASSUME IInv, NEW r \in Reqs, NEW t \in Tokens, holder[t] = r
  PROVE  /\ row[t] # "none" /\ Issued(t)
         /\ At(r, {"commit"}) => t = tx[r].tok
         /\ At(r, {"sweep"}) => row[t] = "live"
BY TableAssumption DEF IInv, TypeOK, HeldOK, RowsOK, Recorded, At

\* A token that stops being live was wanted dead by a logout or has a live
\* successor: repo.go:200, second half.
THEOREM RotationIsWhole == Spec => NeverBothInvalid
<1> DEFINE Why(t) ==
      \/ \E r \in Reqs : At(r, {"revokeOne"}) /\ tx[r].tok = t
      \/ \E r \in Reqs : At(r, {"sweep"}) /\ t \in tx[r].found
      \/ \E n \in Tokens : ~Issued(n) /\ born'[n].issued /\ born'[n].parent = t /\ row'[n] = "live"
<1>1. ASSUME IInv, [Next]_vars, NEW t \in Tokens, row[t] = "live", row'[t] = "revoked"
      PROVE  Why(t)
  <2>1. ASSUME NEW r \in Reqs, Commit(r) PROVE Why(t)
    <3>1. /\ tx[r].tok \in Tokens /\ tx[r].new \in Tokens /\ ~Issued(tx[r].new)
      BY <1>1, <2>1 DEF Commit, IInv, SettledOK, Settled, At
    <3>2. t \in Held(r)
      BY <1>1, <2>1 DEF Commit, IInv, TypeOK
    <3>3. t = tx[r].tok
      BY <1>1, <2>1, <3>2, Holds DEF Commit, Held
    <3>4. row'[tx[r].new] = "live" /\ born'[tx[r].new].issued /\ born'[tx[r].new].parent = t
      BY <1>1, <2>1, <3>1, <3>3 DEF Commit, IInv, TypeOK, Birth
    <3> QED BY <3>1, <3>4
  <2>2. ASSUME NEW r \in Reqs, RevokeOne(r) PROVE Why(t)
    <3>1. At(r, {"revokeOne"}) /\ tx[r].tok = t
      BY <1>1, <2>2 DEF RevokeOne, IInv, TypeOK
    <3> QED BY <3>1
  <2>3. ASSUME NEW r \in Reqs, SweepCommit(r) PROVE Why(t)
    <3>1. t \in Held(r) /\ At(r, {"sweep"})
      BY <1>1, <2>3 DEF SweepCommit, IInv, TypeOK
    <3>2. t \in tx[r].found
      BY <1>1, <3>1, TableAssumption DEF IInv, HeldOK, Held, At
    <3> QED BY <3>1, <3>2
  <2>4. ASSUME NEW r \in Reqs, DeleteCommit(r) PROVE Why(t)
    BY <1>1, <2>4 DEF DeleteCommit, IInv, TypeOK
  <2>5. ASSUME NEW r \in Reqs, NEW n \in Tokens, LoginInsert(r, n) PROVE Why(t)
    BY <1>1, <2>5 DEF LoginInsert, IInv, TypeOK
  <2> QED BY <1>1, <2>1, <2>2, <2>3, <2>4, <2>5, Writers
<1>2. IInv /\ [Next]_vars =>
        [\A t \in Tokens : row[t] = "live" /\ row'[t] = "revoked" => Why(t)]_vars
  BY <1>1
<1> QED BY <1>2, Invariance, PTL DEF Spec, NeverBothInvalid

\* A logout of every session kills every row it found, those it waited for
\* included.
THEOREM LogoutsOfAll == Spec => LogoutAllRevokesWhatItFound
<1> DEFINE Dead == \A r \in Reqs :
      At(r, {"sweep"}) /\ SweepCommit(r) => \A t \in tx[r].found : row'[t] # "live"
<1>1. ASSUME IInv PROVE Dead
  BY <1>1 DEF SweepCommit, Held, IInv, TypeOK, Work, SettledOK, Settled
<1> QED BY <1>1, Invariance, PTL DEF LogoutAllRevokesWhatItFound

----------------------------------------------------------------------------
(* The ledger.                                                              *)

\* q's claim is the same after the step.
SameClaim(q) == (Renewing(q)' <=> Renewing(q)) /\ (Renewing(q) => tx'[q].tok = tx[q].tok)

LEMMA LedgerStutter ==
  ASSUME UNCHANGED <<row, born>>, \A q \in Reqs : SameClaim(q)
  PROVE  UNCHANGED Ledger!lvars
BY DEF SameClaim, LedgerState, Issued, Ledger!lvars

\* The first statement of a rotation, and its end without a commit.
LEMMA LedgerClaim ==
  ASSUME IInv, NEW r \in Reqs, NEW t \in Tokens, Check(r, t)
  PROVE  Ledger!Claim(r, t)
<1>1. /\ ~Renewing(r) /\ Renewing(r)' /\ tx'[r].tok = t
      /\ \A q \in Reqs \ {r} : SameClaim(q)
  BY DEF Check, Renewing, At, Idle, SameClaim, IInv, TypeOK, Work
<1>2. LedgerState(t) = "live" /\ UNCHANGED <<row, born>>
  BY DEF Check, LedgerState, IInv, RowsOK, Recorded
<1> QED BY <1>1, <1>2 DEF SameClaim, LedgerState, Issued, Ledger!Claim

LEMMA LedgerDrop ==
  ASSUME IInv, NEW r \in Reqs, Release(r), UNCHANGED <<row, born>>
  PROVE  Ledger!Drop(r) \/ UNCHANGED Ledger!lvars
<1>1. ~Renewing(r)' /\ \A q \in Reqs \ {r} : SameClaim(q)
  BY DEF Release, Renewing, At, Idle, SameClaim, IInv, TypeOK
<1>2. CASE Renewing(r)
  <2>1. tx[r].tok \in Tokens
    BY <1>2 DEF Renewing, IInv, SettledOK, Settled, At
  <2> QED BY <1>1, <1>2, <2>1, TableAssumption DEF SameClaim, LedgerState, Issued, Ledger!Drop
<1>3. CASE ~Renewing(r)
  BY <1>1, <1>3, LedgerStutter DEF SameClaim
<1> QED BY <1>2, <1>3

\* The commit of a rotation.
LEMMA LedgerRenew ==
  ASSUME IInv, NEW r \in Reqs, Commit(r)
  PROVE  \E n \in Tokens : Ledger!Renew(r, n)
<1>1. PICK old \in Tokens, n \in Tokens :
         /\ old = tx[r].tok /\ n = tx[r].new
         /\ Issued(old) /\ ~Issued(n)
         /\ holder[old] = r \/ row[old] # "live"
  BY DEF Commit, IInv, SettledOK, Settled, At
<1>2. \A t \in Tokens : holder[t] = r => t = old
  BY <1>1, Holds DEF Commit
<1>3. /\ Renewing(r) /\ ~Renewing(r)'
      /\ \A q \in Reqs \ {r} : SameClaim(q)
  BY DEF Commit, Release, Renewing, At, Idle, SameClaim, IInv, TypeOK
<1>4. /\ born'[n].root = born[old].root /\ born'[n].issued
      /\ \A t \in Tokens \ {n} : born'[t] = born[t]
  BY <1>1 DEF Commit, Birth, IInv, TypeOK
<1>5. /\ row'[n] = "live" /\ row'[old] # "live"
      /\ \A t \in Tokens \ {n, old} : row'[t] = row[t]
  BY <1>1, <1>2 DEF Commit, Held, IInv, TypeOK
<1>6. old # n /\ old # NoToken
  BY <1>1, TableAssumption
<1>7. /\ LedgerState(n) = "unused" /\ LedgerState(n)' = "live" /\ LedgerState(old)' = "spent"
      /\ \A t \in Tokens \ {n, old} : LedgerState(t)' = LedgerState(t)
  BY <1>1, <1>4, <1>5, <1>6 DEF LedgerState, Issued
<1>8. Issued(n)' /\ \A t \in Tokens \ {n} : Issued(t)' = Issued(t)
  BY <1>4 DEF Issued
<1>9. Ledger!Renew(r, n)
  <2> DEFINE state == [t \in Tokens |-> LedgerState(t)]
             owner == [t \in Tokens |-> IF Issued(t) THEN Account ELSE NoAdmin]
             session == [t \in Tokens |-> born[t].root]
             claim == [q \in Reqs |-> IF Renewing(q) THEN tx[q].tok ELSE NoToken]
  <2>1. claim[r] = old /\ claim' = [claim EXCEPT ![r] = NoToken]
    BY <1>1, <1>3 DEF SameClaim
  <2>2. state[n] = "unused" /\ state' = [state EXCEPT ![old] = "spent", ![n] = "live"]
    BY <1>6, <1>7
  <2>3. owner' = [owner EXCEPT ![n] = owner[old]]
    BY <1>1, <1>8
  <2>4. session' = [session EXCEPT ![n] = session[old]]
    BY <1>4
  <2> QED BY <1>6, <2>1, <2>2, <2>3, <2>4 DEF Ledger!Renew
<1> QED BY <1>9

LEMMA LedgerOpen ==
  ASSUME IInv, NEW r \in Reqs, NEW n \in Tokens, LoginInsert(r, n)
  PROVE  Ledger!Open(Account, n)
<1>1. \A q \in Reqs : SameClaim(q)
  BY DEF LoginInsert, SameClaim, Renewing, At
<1>2. ~Issued(n) /\ born[n].root = n
  BY DEF LoginInsert, Fresh, IInv, RowsOK, Recorded
<1>3. /\ born'[n].root = n /\ born'[n].issued /\ row'[n] = "live"
      /\ \A t \in Tokens \ {n} : born'[t] = born[t] /\ row'[t] = row[t]
  BY DEF LoginInsert, Birth, IInv, TypeOK
<1>4. /\ LedgerState(n) = "unused" /\ LedgerState(n)' = "live"
      /\ \A t \in Tokens \ {n} : LedgerState(t)' = LedgerState(t) /\ Issued(t)' = Issued(t)
      /\ Issued(n)'
  BY <1>2, <1>3 DEF LedgerState, Issued
<1> QED BY <1>1, <1>2, <1>3, <1>4 DEF SameClaim, Ledger!Open

\* A commit that only takes rows out of the living.
LEMMA LedgerEnd ==
  ASSUME IInv, \A q \in Reqs : SameClaim(q), UNCHANGED born,
         \A t \in Tokens : row'[t] = "live" => row[t] = "live"
  PROVE  \E T \in SUBSET Tokens : Ledger!End(Account, T)
<1> DEFINE T == {t \in Tokens : row[t] = "live" /\ row'[t] # "live"}
<1>1. /\ \A t \in T : LedgerState(t) = "live" /\ Issued(t) /\ LedgerState(t)' = "spent"
      /\ \A t \in Tokens \ T : LedgerState(t)' = LedgerState(t)
  BY DEF LedgerState, Issued, IInv, RowsOK, Recorded
<1>2. T \in SUBSET Tokens
  OBVIOUS
<1> HIDE DEF T
<1>3. Ledger!End(Account, T)
  BY <1>1, <1>2 DEF SameClaim, Issued, Ledger!End
<1> QED BY <1>2, <1>3

LEMMA LedgerStep ==
  ASSUME IInv, [Next]_vars
  PROVE  [Ledger!Next]_(Ledger!lvars)
<1>1. ASSUME NEW r \in Reqs, Arrive(r) PROVE [Ledger!Next]_(Ledger!lvars)
  <2>1. ASSUME NEW t \in Tokens, Check(r, t) PROVE Ledger!Next
    BY <2>1, LedgerClaim DEF Ledger!Next
  <2>2. ASSUME NEW t \in Tokens, LoginInsert(r, t) PROVE Ledger!Next
    BY <2>2, LedgerOpen DEF Ledger!Next
  <2>3. ASSUME (\E t \in Tokens : LogoutLookup(r, t)) \/ SweepStart(r) \/ DeleteStart(r)
        PROVE  UNCHANGED Ledger!lvars
    <3>1. \/ \E t \in Tokens : tx' = [tx EXCEPT ![r] = [Idle EXCEPT !.pc = "revokeOne", !.tok = t]]
          \/ \E f : tx' = [tx EXCEPT ![r] = [Idle EXCEPT !.pc = "sweep", !.found = f, !.todo = f]]
          \/ \E f : tx' = [tx EXCEPT ![r] = [Idle EXCEPT !.pc = "cascade", !.todo = f]]
      BY <2>3 DEF LogoutLookup, SweepStart, DeleteStart
    <3>3. tx'[r].pc \in {"revokeOne", "sweep", "cascade"} /\ \A q \in Reqs \ {r} : tx'[q] = tx[q]
      BY <3>1 DEF Idle, IInv, TypeOK
    <3>4. tx[r].pc = "idle" /\ UNCHANGED <<row, born>>
      BY <2>3 DEF LogoutLookup, SweepStart, DeleteStart, At
    <3>2. \A q \in Reqs : SameClaim(q)
      BY <3>3, <3>4 DEF SameClaim, Renewing, At
    <3> QED BY <3>4, <3>2, LedgerStutter
  <2> QED BY <1>1, <2>1, <2>2, <2>3 DEF Arrive
<1>2. ASSUME NEW r \in Reqs, Continue(r) PROVE [Ledger!Next]_(Ledger!lvars)
  <2>1. ASSUME Commit(r) PROVE Ledger!Next
    BY <2>1, LedgerRenew DEF Ledger!Next
  <2>2. ASSUME RevokeOne(r) \/ SweepCommit(r) \/ DeleteCommit(r) PROVE Ledger!Next
    <3>1. \A q \in Reqs : SameClaim(q)
      BY <2>2 DEF RevokeOne, SweepCommit, DeleteCommit, Release, SameClaim, Renewing,
         At, Idle,
         IInv, TypeOK
    <3>2. UNCHANGED born /\ \A t \in Tokens : row'[t] = "live" => row[t] = "live"
      BY <2>2 DEF RevokeOne, SweepCommit, DeleteCommit, IInv, TypeOK
    <3> QED BY <3>1, <3>2, LedgerEnd DEF Ledger!Next
  <2>3. ASSUME Insert(r) PROVE [Ledger!Next]_(Ledger!lvars)
    <3>1. CASE present
      <4>1. PICK n \in Fresh : tx' = [tx EXCEPT ![r] = [@ EXCEPT !.pc = "commit", !.new = n]]
        BY <2>3, <3>1 DEF Insert
      <4>2. UNCHANGED <<row, born>> /\ tx[r].pc = "insert"
        BY <2>3 DEF Insert, At
      <4>3. \A q \in Reqs : SameClaim(q)
        BY <4>1, <4>2 DEF SameClaim, Renewing, At, IInv, TypeOK, Work
      <4> QED BY <4>2, <4>3, LedgerStutter
    <3>2. CASE ~present
      BY <2>3, <3>2, LedgerDrop DEF Insert, Ledger!Next
    <3> QED BY <3>1, <3>2
  <2>4. ASSUME UpdateOld(r) \/ \E t \in Tokens : SweepRow(r, t) \/ CascadeRow(r, t)
        PROVE  UNCHANGED Ledger!lvars
    <3>1. UNCHANGED <<row, born>>
      BY <2>4 DEF UpdateOld, SweepRow, CascadeRow
    <3>2. \A q \in Reqs : SameClaim(q)
      BY <2>4 DEF UpdateOld, SweepRow, CascadeRow, SameClaim, Renewing, At, IInv,
         TypeOK, Work
    <3> QED BY <3>1, <3>2, LedgerStutter
  <2> QED BY <1>2, <2>1, <2>2, <2>3, <2>4 DEF Continue
<1>3. ASSUME NEW r \in Reqs, Rollback(r) PROVE [Ledger!Next]_(Ledger!lvars)
  BY <1>3, LedgerDrop DEF Rollback, Ledger!Next
<1>4. CASE UNCHANGED vars
  BY <1>4, LedgerStutter DEF vars, SameClaim, Renewing, At
<1> QED BY <1>1, <1>2, <1>3, <1>4 DEF Next

\* Every behaviour of the statements is a behaviour of the ledger.
THEOREM Implementation == Spec => ImplementsLedger
<1>1. Init => Ledger!Init
  BY DEF Init, LedgerState, Issued, Renewing, At, Idle, Ledger!Init
<1>2. IInv /\ [Next]_vars => [Ledger!Next]_(Ledger!lvars)
  BY LedgerStep
<1> QED BY <1>1, <1>2, Invariance, PTL DEF Spec, ImplementsLedger, Ledger!Spec

=============================================================================
