-------------------------- MODULE DirectoryProofs --------------------------
(***************************************************************************)
(* Proofs about what requests do to the rows of the Directory, for any     *)
(* number of requests, bounds and plans.                                   *)
(***************************************************************************)
EXTENDS Directory, Sequences, FiniteSetTheorems, WellFoundedInduction, TLAPS

-----------------------------------------------------------------------------
(***************************************************************************)
(* A share across its content and its row                                  *)
(***************************************************************************)
\* Requests that exist only once the share has a row, and that create it.
ShareKnown(r) == job[r].op \in {"revoke", "adminRevoke", "change", "adminChange", "list"}
Creating(r) == S!Is(r, "create", "index")

\* Before the share is stored nothing is under way; only one request creates it, and it has no row until then.
ShareBegins ==
    /\ \A r \in ShareRequests : job[r].op = "none" <=> job[r].at = "idle"
    /\ made = "no" => content = S!Gone /\ ~S!Indexed /\ \A r \in ShareRequests : job[r].at = "idle"
    /\ \A r \in ShareRequests : Creating(r) => ~S!Indexed /\ job[r].want = 1 /\ \A s \in ShareRequests : Creating(s) => s = r
    /\ \A r \in ShareRequests : job[r].at = "index" => job[r].op = "create"
    /\ \A r \in ShareRequests : ShareKnown(r) => S!Indexed

\* What a request's next call says of what it is.
ShareCalls ==
    /\ \A r \in ShareRequests : job[r].at \in {"recheck", "extend", "write", "patch"} => job[r].op \in {"change", "adminChange"}
    /\ \A r \in ShareRequests : job[r].at \in {"update", "purge"} => job[r].op \in {"revoke", "adminRevoke"}
    /\ \A r \in ShareRequests : job[r].at \in {"write", "remove"} => S!InKV

\* A request that will mark the row has seen the content gone, and one that will date it has extended it.
ShareOrder ==
    /\ \A r \in ShareRequests : ~S!InKV /\ job[r].at = "mark" => content = S!Gone
    /\ \A r \in ShareRequests : ~S!InKV /\ S!Is(r, "adminRevoke", "update") => content = S!Gone
    /\ \A r \in ShareRequests : ~S!InKV /\ job[r].at = "patch" /\ content # S!Gone => job[r].want <= content
    /\ \A r \in ShareRequests : S!Is(r, "revoke", "purge") => row.status = "revoked"

ShareInv ==
    /\ S!TypeOK /\ ShareBegins /\ ShareCalls /\ ShareOrder
    /\ S!EndedMeansGone /\ S!IndexNotAhead /\ S!LiveIsIndexed

LEMMA ShareInit == S!Init => ShareInv
  BY DirectoryAssumption
  DEF S!Init, ShareInv, S!TypeOK, S!Job, S!Expiries, S!Endings, S!Gone, S!Idle, S!ConstantsAssumption, DirectoryAssumption, ShareBegins, ShareCalls,
      ShareOrder, Creating, ShareKnown, S!Is, S!Indexed, S!InKV, S!EndedMeansGone, S!IndexNotAhead, S!LiveIsIndexed

\* What the ways to go on do to the requests.
ShareJobs == job \in [ShareRequests -> S!Job]
ShareOps == {"none", "create", "open", "delete", "expire", "revoke", "adminRevoke", "change", "adminChange", "list"}
ShareAts == {"idle", "index", "destroy", "remove", "update", "purge", "recheck", "extend", "write", "patch", "look", "mark"}
\* Only r goes on, and is then this.
Becomes(r, op, at, want, ending) ==
    /\ ShareJobs' /\ \A s \in ShareRequests \ {r} : job'[s] = job[s]
    /\ job'[r].op = op /\ job'[r].at = at /\ job'[r].want = want /\ job'[r].ending = ending

LEMMA ShareRows == S!Job = [op : ShareOps, at : ShareAts, want : 1 .. MaxExpiry, ending : S!Endings]
  BY DEF S!Job, ShareOps, ShareAts, S!Expiries

LEMMA ShareFields ==
    ASSUME NEW x \in S!Job, NEW op \in ShareOps, NEW at \in ShareAts, NEW want \in 1 .. MaxExpiry, NEW ending \in S!Endings
    PROVE  /\ [x EXCEPT !.op = op] \in S!Job /\ [x EXCEPT !.at = at] \in S!Job
           /\ [x EXCEPT !.want = want] \in S!Job /\ [x EXCEPT !.ending = ending] \in S!Job
  BY ShareRows

LEMMA ShareIdle == S!Idle \in S!Job /\ 1 \in 1 .. MaxExpiry
  <1>1. 1 \in 1 .. MaxExpiry
    BY DirectoryAssumption DEF DirectoryAssumption, S!ConstantsAssumption
  <1> QED BY <1>1, ShareRows DEF S!Idle, ShareOps, ShareAts, S!Endings

LEMMA ShareBegun ==
    ASSUME ShareJobs, NEW r \in ShareRequests, NEW op \in ShareOps, NEW at \in ShareAts, NEW want \in 1 .. MaxExpiry, S!Begin(r, op, at, want)
    PROVE  job[r].at = "idle" /\ Becomes(r, op, at, want, "ended")
  <1> DEFINE x == [S!Idle EXCEPT !.op = op]
             y == [x EXCEPT !.at = at]
             z == [y EXCEPT !.want = want]
  <1>1. x \in S!Job /\ x.op = op /\ x.ending = "ended"
    BY ShareFields, ShareIdle, ShareRows DEF S!Idle
  <1> HIDE DEF x
  <1>2. y \in S!Job /\ y.op = op /\ y.ending = "ended" /\ y.at = at
    BY <1>1, ShareFields, ShareRows
  <1> HIDE DEF y
  <1>3. z \in S!Job /\ z.op = op /\ z.ending = "ended" /\ z.at = at /\ z.want = want
    BY <1>2, ShareFields, ShareRows
  <1>4. job[r].at = "idle" /\ job' = [job EXCEPT ![r] = z]
    BY DEF S!Begin, x, y, z
  <1> HIDE DEF z
  <1> QED BY <1>3, <1>4 DEF Becomes, ShareJobs

LEMMA ShareOpened ==
    ASSUME ShareJobs, NEW r \in ShareRequests, S!OpenLast(r)
    PROVE  Becomes(r, "open", "mark", 1, "consumed")
  <1> DEFINE x == [S!Idle EXCEPT !.op = "open"]
             y == [x EXCEPT !.at = "mark"]
             z == [y EXCEPT !.ending = "consumed"]
  <1>0. "open" \in ShareOps /\ "mark" \in ShareAts /\ "consumed" \in S!Endings
    BY DEF ShareOps, ShareAts, S!Endings
  <1>1. x \in S!Job /\ x.op = "open" /\ x.want = 1
    BY <1>0, ShareFields, ShareIdle, ShareRows DEF S!Idle
  <1> HIDE DEF x
  <1>2. y \in S!Job /\ y.op = "open" /\ y.want = 1 /\ y.at = "mark"
    BY <1>0, <1>1, ShareFields, ShareRows
  <1> HIDE DEF y
  <1>3. z \in S!Job /\ z.op = "open" /\ z.want = 1 /\ z.at = "mark" /\ z.ending = "consumed"
    BY <1>0, <1>2, ShareFields, ShareRows
  <1>4. job' = [job EXCEPT ![r] = z]
    BY DEF S!OpenLast, x, y, z
  <1> HIDE DEF z
  <1> QED BY <1>3, <1>4 DEF Becomes, ShareJobs

LEMMA ShareGoes ==
    ASSUME ShareJobs, NEW r \in ShareRequests, NEW at \in ShareAts, S!Goto(r, at)
    PROVE  Becomes(r, job[r].op, at, job[r].want, job[r].ending)
  <1> DEFINE z == [job[r] EXCEPT !.at = at]
  <1>1. job[r] \in S!Job
    BY DEF ShareJobs
  <1>2. z \in S!Job /\ z.op = job[r].op /\ z.at = at /\ z.want = job[r].want /\ z.ending = job[r].ending
    BY <1>1, ShareFields, ShareRows
  <1>3. job' = [job EXCEPT ![r] = z]
    BY DEF S!Goto
  <1> HIDE DEF z
  <1> QED BY <1>2, <1>3 DEF Becomes, ShareJobs

LEMMA ShareDone ==
    ASSUME ShareJobs, NEW r \in ShareRequests, S!Done(r)
    PROVE  Becomes(r, "none", "idle", 1, "ended")
  <1>1. S!Idle.op = "none" /\ S!Idle.at = "idle" /\ S!Idle.want = 1 /\ S!Idle.ending = "ended"
    BY DEF S!Idle
  <1> QED BY <1>1, ShareIdle DEF S!Done, Becomes, ShareJobs

LEMMA ShareMarks ==
    ASSUME ShareJobs, NEW r \in ShareRequests, NEW ending \in S!Endings, S!ToMark(r, ending)
    PROVE  Becomes(r, job[r].op, "mark", job[r].want, ending)
  <1> DEFINE y == [job[r] EXCEPT !.at = "mark"]
             z == [y EXCEPT !.ending = ending]
  <1>0. job[r] \in S!Job /\ "mark" \in ShareAts
    BY DEF ShareJobs, ShareAts
  <1>1. y \in S!Job /\ y.op = job[r].op /\ y.at = "mark" /\ y.want = job[r].want
    BY <1>0, ShareFields, ShareRows
  <1>2. job' = [[job EXCEPT ![r] = y] EXCEPT ![r].ending = ending]
    BY DEF S!ToMark
  <1> HIDE DEF y
  <1>3. z \in S!Job /\ z.op = job[r].op /\ z.at = "mark" /\ z.want = job[r].want /\ z.ending = ending
    BY <1>1, ShareFields, ShareRows
  <1>4. job' = [job EXCEPT ![r] = z]
    BY <1>2 DEF ShareJobs
  <1> HIDE DEF z
  <1> QED BY <1>3, <1>4 DEF Becomes, ShareJobs

LEMMA ShareTypes == ASSUME ShareInv, S!Next PROVE S!TypeOK'
  <1>0. S!TypeOK /\ ShareJobs /\ 1 \in 1 .. MaxExpiry
    BY ShareIdle DEF ShareInv, S!TypeOK, ShareJobs
  <1> USE <1>0, ShareRows DEF ShareJobs, Becomes, S!TypeOK, S!Expiries, S!Endings, S!Gone, ShareOps, ShareAts, S!Is
  <1>1. CASE S!Expire
    BY <1>1 DEF S!Expire
  <1>2. ASSUME NEW on \in BOOLEAN, S!SetLock(on) PROVE S!TypeOK'
    BY <1>2 DEF S!SetLock
  <1>3. ASSUME NEW r \in ShareRequests, S!Step(r) PROVE S!TypeOK'
    <2>1. CASE S!CreateStore(r)
      BY <2>1, ShareBegun DEF S!CreateStore
    <2>2. CASE S!RecordShare(r)
      BY <2>2, ShareDone DEF S!RecordShare
    <2>3. CASE S!OpenLast(r)
      BY <2>3, ShareOpened DEF S!OpenLast
    <2>4. ASSUME NEW op \in {"delete", "expire"}, S!BeginDelete(r, op) PROVE S!TypeOK'
      BY <2>4, ShareBegun DEF S!BeginDelete
    <2>5. CASE S!DestroyObject(r)
      BY <2>5, ShareDone, ShareMarks DEF S!DestroyObject
    <2>6. CASE S!DestroyRead(r)
      BY <2>6, ShareDone, ShareGoes DEF S!DestroyRead
    <2>7. CASE S!DestroyWrite(r)
      BY <2>7, ShareMarks DEF S!DestroyWrite
    <2>8. CASE S!BeginRevoke(r)
      BY <2>8, ShareBegun DEF S!BeginRevoke
    <2>9. CASE S!RevokeUpdate(r)
      BY <2>9, ShareDone, ShareGoes DEF S!RevokeUpdate
    <2>10. CASE S!BeginAdminRevoke(r)
      BY <2>10, ShareBegun DEF S!BeginAdminRevoke
    <2>11. CASE S!PurgeShare(r)
      BY <2>11, ShareDone, ShareGoes DEF S!PurgeShare
    <2>12. CASE S!AdminRevokeUpdate(r)
      BY <2>12, ShareDone DEF S!AdminRevokeUpdate
    <2>13. ASSUME NEW op \in {"change", "adminChange"}, NEW want \in S!Expiries, S!BeginChange(r, op, want) PROVE S!TypeOK'
      BY <2>13, ShareBegun DEF S!BeginChange
    <2>14. CASE S!Recheck(r)
      BY <2>14, ShareDone, ShareGoes DEF S!Recheck
    <2>15. CASE S!ExtendObject(r)
      BY <2>15, ShareDone, ShareGoes, ShareMarks DEF S!ExtendObject
    <2>16. CASE S!ExtendRead(r)
      BY <2>16, ShareDone, ShareGoes, ShareMarks DEF S!ExtendRead
    <2>17. CASE S!ExtendWrite(r)
      BY <2>17, ShareGoes DEF S!ExtendWrite
    <2>18. CASE S!PatchRow(r)
      BY <2>18, ShareDone DEF S!PatchRow
    <2>19. CASE S!BeginList(r)
      BY <2>19, ShareBegun DEF S!BeginList
    <2>20. CASE S!ListLook(r)
      BY <2>20, ShareDone, ShareMarks DEF S!ListLook
    <2>21. CASE S!Mark(r)
      BY <2>21, ShareDone DEF S!Mark
    <2>22. CASE S!Crash(r)
      BY <2>22, ShareDone, DirectoryAssumption DEF S!Crash, DirectoryAssumption, S!ConstantsAssumption
    <2> QED BY <1>3, <2>1, <2>2, <2>3, <2>4, <2>5, <2>6, <2>7, <2>8, <2>9, <2>10, <2>11, <2>12,
               <2>13, <2>14, <2>15, <2>16, <2>17, <2>18, <2>19, <2>20, <2>21, <2>22 DEF S!Step
  <1> QED BY <1>1, <1>2, <1>3 DEF S!Next

LEMMA ShareBeginsKept == ASSUME ShareInv, S!Next PROVE ShareBegins'
  <1>0. S!TypeOK /\ ShareJobs /\ 1 \in 1 .. MaxExpiry
    BY ShareIdle DEF ShareInv, S!TypeOK, ShareJobs
  <1>t. S!TypeOK'
    BY ShareTypes
  <1> USE <1>0, <1>t DEF ShareInv, ShareJobs, Becomes, S!TypeOK, S!Expiries, S!Endings, S!Gone, ShareOps, ShareAts, S!Is, S!Indexed,
              S!InKV, ShareBegins, Creating, ShareKnown
  <1>1. CASE S!Expire
    BY <1>1 DEF S!Expire
  <1>2. ASSUME NEW on \in BOOLEAN, S!SetLock(on) PROVE ShareBegins'
    BY <1>2 DEF S!SetLock
  <1>3. ASSUME NEW r \in ShareRequests, S!Step(r) PROVE ShareBegins'
    <2>1. CASE S!CreateStore(r)
      BY <2>1, ShareBegun DEF S!CreateStore
    <2>2. CASE S!RecordShare(r)
      BY <2>2, ShareDone DEF S!RecordShare
    <2>3. CASE S!OpenLast(r)
      BY <2>3, ShareOpened DEF S!OpenLast
    <2>4. ASSUME NEW op \in {"delete", "expire"}, S!BeginDelete(r, op) PROVE ShareBegins'
      BY <2>4, ShareBegun DEF S!BeginDelete
    <2>5. CASE S!DestroyObject(r)
      BY <2>5, ShareDone, ShareMarks DEF S!DestroyObject
    <2>6. CASE S!DestroyRead(r)
      BY <2>6, ShareDone, ShareGoes DEF S!DestroyRead
    <2>7. CASE S!DestroyWrite(r)
      BY <2>7, ShareMarks DEF S!DestroyWrite
    <2>8. CASE S!BeginRevoke(r)
      BY <2>8, ShareBegun DEF S!BeginRevoke
    <2>9. CASE S!RevokeUpdate(r)
      BY <2>9, ShareDone, ShareGoes DEF S!RevokeUpdate
    <2>10. CASE S!BeginAdminRevoke(r)
      BY <2>10, ShareBegun DEF S!BeginAdminRevoke
    <2>11. CASE S!PurgeShare(r)
      BY <2>11, ShareDone, ShareGoes DEF S!PurgeShare
    <2>12. CASE S!AdminRevokeUpdate(r)
      BY <2>12, ShareDone DEF S!AdminRevokeUpdate
    <2>13. ASSUME NEW op \in {"change", "adminChange"}, NEW want \in S!Expiries, S!BeginChange(r, op, want) PROVE ShareBegins'
      BY <2>13, ShareBegun DEF S!BeginChange
    <2>14. CASE S!Recheck(r)
      BY <2>14, ShareDone, ShareGoes DEF S!Recheck
    <2>15. CASE S!ExtendObject(r)
      BY <2>15, ShareDone, ShareGoes, ShareMarks DEF S!ExtendObject
    <2>16. CASE S!ExtendRead(r)
      BY <2>16, ShareDone, ShareGoes, ShareMarks DEF S!ExtendRead
    <2>17. CASE S!ExtendWrite(r)
      BY <2>17, ShareGoes DEF S!ExtendWrite
    <2>18. CASE S!PatchRow(r)
      BY <2>18, ShareDone DEF S!PatchRow
    <2>19. CASE S!BeginList(r)
      BY <2>19, ShareBegun DEF S!BeginList
    <2>20. CASE S!ListLook(r)
      BY <2>20, ShareDone, ShareMarks DEF S!ListLook
    <2>21. CASE S!Mark(r)
      <3>1. Becomes(r, "none", "idle", 1, "ended") /\ job[r].at = "mark" /\ UNCHANGED <<content, made, crashes>>
        BY <2>21, ShareDone DEF S!Mark
      <3>2. (row.status # "none") <=> (row'.status # "none")
        <4>1. job[r] \in S!Job /\ job[r].ending # "none"
          BY ShareRows
        <4> QED BY <2>21, <4>1 DEF S!Mark
      <3> QED BY <3>1, <3>2
    <2>22. CASE S!Crash(r)
      BY <2>22, ShareDone DEF S!Crash
    <2> QED BY <1>3, <2>1, <2>2, <2>3, <2>4, <2>5, <2>6, <2>7, <2>8, <2>9, <2>10, <2>11, <2>12,
               <2>13, <2>14, <2>15, <2>16, <2>17, <2>18, <2>19, <2>20, <2>21, <2>22 DEF S!Step
  <1> QED BY <1>1, <1>2, <1>3 DEF S!Next

LEMMA ShareCallsKept == ASSUME ShareInv, S!Next PROVE ShareCalls'
  <1>0. S!TypeOK /\ ShareJobs /\ 1 \in 1 .. MaxExpiry
    BY ShareIdle DEF ShareInv, S!TypeOK, ShareJobs
  <1>t. S!TypeOK'
    BY ShareTypes
  <1> USE <1>0, <1>t DEF ShareInv, ShareJobs, Becomes, S!TypeOK, S!Expiries, S!Endings, S!Gone, ShareOps, ShareAts, S!Is, S!Indexed,
              S!InKV, ShareBegins, ShareCalls, Creating, ShareKnown
  <1>1. CASE S!Expire
    BY <1>1 DEF S!Expire
  <1>2. ASSUME NEW on \in BOOLEAN, S!SetLock(on) PROVE ShareCalls'
    BY <1>2 DEF S!SetLock
  <1>3. ASSUME NEW r \in ShareRequests, S!Step(r) PROVE ShareCalls'
    <2>1. CASE S!CreateStore(r)
      BY <2>1, ShareBegun DEF S!CreateStore
    <2>2. CASE S!RecordShare(r)
      BY <2>2, ShareDone DEF S!RecordShare
    <2>3. CASE S!OpenLast(r)
      BY <2>3, ShareOpened DEF S!OpenLast
    <2>4. ASSUME NEW op \in {"delete", "expire"}, S!BeginDelete(r, op) PROVE ShareCalls'
      BY <2>4, ShareBegun DEF S!BeginDelete
    <2>5. CASE S!DestroyObject(r)
      BY <2>5, ShareDone, ShareMarks DEF S!DestroyObject
    <2>6. CASE S!DestroyRead(r)
      BY <2>6, ShareDone, ShareGoes DEF S!DestroyRead
    <2>7. CASE S!DestroyWrite(r)
      BY <2>7, ShareMarks DEF S!DestroyWrite
    <2>8. CASE S!BeginRevoke(r)
      BY <2>8, ShareBegun DEF S!BeginRevoke
    <2>9. CASE S!RevokeUpdate(r)
      BY <2>9, ShareDone, ShareGoes DEF S!RevokeUpdate
    <2>10. CASE S!BeginAdminRevoke(r)
      BY <2>10, ShareBegun DEF S!BeginAdminRevoke
    <2>11. CASE S!PurgeShare(r)
      BY <2>11, ShareDone, ShareGoes DEF S!PurgeShare
    <2>12. CASE S!AdminRevokeUpdate(r)
      BY <2>12, ShareDone DEF S!AdminRevokeUpdate
    <2>13. ASSUME NEW op \in {"change", "adminChange"}, NEW want \in S!Expiries, S!BeginChange(r, op, want) PROVE ShareCalls'
      BY <2>13, ShareBegun DEF S!BeginChange
    <2>14. CASE S!Recheck(r)
      BY <2>14, ShareDone, ShareGoes DEF S!Recheck
    <2>15. CASE S!ExtendObject(r)
      BY <2>15, ShareDone, ShareGoes, ShareMarks DEF S!ExtendObject
    <2>16. CASE S!ExtendRead(r)
      BY <2>16, ShareDone, ShareGoes, ShareMarks DEF S!ExtendRead
    <2>17. CASE S!ExtendWrite(r)
      BY <2>17, ShareGoes DEF S!ExtendWrite
    <2>18. CASE S!PatchRow(r)
      BY <2>18, ShareDone DEF S!PatchRow
    <2>19. CASE S!BeginList(r)
      BY <2>19, ShareBegun DEF S!BeginList
    <2>20. CASE S!ListLook(r)
      BY <2>20, ShareDone, ShareMarks DEF S!ListLook
    <2>21. CASE S!Mark(r)
      BY <2>21, ShareDone DEF S!Mark
    <2>22. CASE S!Crash(r)
      BY <2>22, ShareDone DEF S!Crash
    <2> QED BY <1>3, <2>1, <2>2, <2>3, <2>4, <2>5, <2>6, <2>7, <2>8, <2>9, <2>10, <2>11, <2>12,
               <2>13, <2>14, <2>15, <2>16, <2>17, <2>18, <2>19, <2>20, <2>21, <2>22 DEF S!Step
  <1> QED BY <1>1, <1>2, <1>3 DEF S!Next

LEMMA ShareOrderKept == ASSUME ShareInv, S!Next PROVE ShareOrder'
  <1>0. S!TypeOK /\ ShareJobs /\ 1 \in 1 .. MaxExpiry
    BY ShareIdle DEF ShareInv, S!TypeOK, ShareJobs
  <1>t. S!TypeOK'
    BY ShareTypes
  <1> USE <1>0, <1>t DEF ShareInv, ShareJobs, Becomes, S!TypeOK, S!Expiries, S!Endings, S!Gone, ShareOps, ShareAts, S!Is, S!Indexed,
              S!InKV, ShareBegins, ShareCalls, ShareOrder, Creating, ShareKnown
  <1>1. CASE S!Expire
    BY <1>1 DEF S!Expire
  <1>2. ASSUME NEW on \in BOOLEAN, S!SetLock(on) PROVE ShareOrder'
    BY <1>2 DEF S!SetLock
  <1>3. ASSUME NEW r \in ShareRequests, S!Step(r) PROVE ShareOrder'
    <2>1. CASE S!CreateStore(r)
      BY <2>1, ShareBegun DEF S!CreateStore
    <2>2. CASE S!RecordShare(r)
      BY <2>2, ShareDone DEF S!RecordShare
    <2>3. CASE S!OpenLast(r)
      BY <2>3, ShareOpened DEF S!OpenLast
    <2>4. ASSUME NEW op \in {"delete", "expire"}, S!BeginDelete(r, op) PROVE ShareOrder'
      BY <2>4, ShareBegun DEF S!BeginDelete
    <2>5. CASE S!DestroyObject(r)
      BY <2>5, ShareDone, ShareMarks DEF S!DestroyObject
    <2>6. CASE S!DestroyRead(r)
      BY <2>6, ShareDone, ShareGoes DEF S!DestroyRead
    <2>7. CASE S!DestroyWrite(r)
      BY <2>7, ShareMarks DEF S!DestroyWrite
    <2>8. CASE S!BeginRevoke(r)
      BY <2>8, ShareBegun DEF S!BeginRevoke
    <2>9. CASE S!RevokeUpdate(r)
      BY <2>9, ShareDone, ShareGoes DEF S!RevokeUpdate
    <2>10. CASE S!BeginAdminRevoke(r)
      BY <2>10, ShareBegun DEF S!BeginAdminRevoke
    <2>11. CASE S!PurgeShare(r)
      BY <2>11, ShareDone, ShareGoes DEF S!PurgeShare
    <2>12. CASE S!AdminRevokeUpdate(r)
      BY <2>12, ShareDone DEF S!AdminRevokeUpdate
    <2>13. ASSUME NEW op \in {"change", "adminChange"}, NEW want \in S!Expiries, S!BeginChange(r, op, want) PROVE ShareOrder'
      BY <2>13, ShareBegun DEF S!BeginChange
    <2>14. CASE S!Recheck(r)
      BY <2>14, ShareDone, ShareGoes DEF S!Recheck
    <2>15. CASE S!ExtendObject(r)
      <3>1. CASE content = S!Gone /\ S!ToMark(r, "ended") /\ UNCHANGED content
        BY <2>15, <3>1, ShareMarks DEF S!ExtendObject
      <3>2. CASE job[r].want <= content /\ S!Done(r) /\ UNCHANGED content
        BY <2>15, <3>2, ShareDone DEF S!ExtendObject
      <3>3. CASE content # S!Gone /\ job[r].want > content /\ S!Goto(r, "patch") /\ content' = job[r].want
        <4>1. Becomes(r, job[r].op, "patch", job[r].want, job[r].ending) /\ UNCHANGED <<row, made, crashes>>
          BY <2>15, <3>3, ShareGoes DEF S!ExtendObject
        <4>2. content \in Nat /\ content' \in Nat /\ \A s \in ShareRequests : job[s].want \in Nat
          BY ShareRows
        <4> QED BY <2>15, <3>3, <4>1, <4>2 DEF S!ExtendObject
      <3> QED BY <2>15, <3>1, <3>2, <3>3 DEF S!ExtendObject
    <2>16. CASE S!ExtendRead(r)
      BY <2>16, ShareDone, ShareGoes, ShareMarks DEF S!ExtendRead
    <2>17. CASE S!ExtendWrite(r)
      BY <2>17, ShareGoes DEF S!ExtendWrite
    <2>18. CASE S!PatchRow(r)
      BY <2>18, ShareDone DEF S!PatchRow
    <2>19. CASE S!BeginList(r)
      BY <2>19, ShareBegun DEF S!BeginList
    <2>20. CASE S!ListLook(r)
      BY <2>20, ShareDone, ShareMarks DEF S!ListLook
    <2>21. CASE S!Mark(r)
      BY <2>21, ShareDone DEF S!Mark
    <2>22. CASE S!Crash(r)
      BY <2>22, ShareDone DEF S!Crash
    <2> QED BY <1>3, <2>1, <2>2, <2>3, <2>4, <2>5, <2>6, <2>7, <2>8, <2>9, <2>10, <2>11, <2>12,
               <2>13, <2>14, <2>15, <2>16, <2>17, <2>18, <2>19, <2>20, <2>21, <2>22 DEF S!Step
  <1> QED BY <1>1, <1>2, <1>3 DEF S!Next

LEMMA ShareSafeKept == ASSUME ShareInv, S!Next PROVE S!EndedMeansGone' /\ S!IndexNotAhead' /\ S!LiveIsIndexed'
  <1>0. S!TypeOK /\ ShareJobs /\ 1 \in 1 .. MaxExpiry
    BY ShareIdle DEF ShareInv, S!TypeOK, ShareJobs
  <1>t. S!TypeOK'
    BY ShareTypes
  <1> USE <1>0, <1>t DEF ShareInv, ShareJobs, Becomes, S!TypeOK, S!Expiries, S!Endings, S!Gone, ShareOps, ShareAts, S!Is, S!Indexed,
              S!InKV, ShareBegins, ShareCalls, ShareOrder, Creating, ShareKnown, S!EndedMeansGone, S!IndexNotAhead, S!LiveIsIndexed
  <1>1. CASE S!Expire
    BY <1>1 DEF S!Expire
  <1>2. ASSUME NEW on \in BOOLEAN, S!SetLock(on) PROVE S!EndedMeansGone' /\ S!IndexNotAhead' /\ S!LiveIsIndexed'
    BY <1>2 DEF S!SetLock
  <1>3. ASSUME NEW r \in ShareRequests, S!Step(r) PROVE S!EndedMeansGone' /\ S!IndexNotAhead' /\ S!LiveIsIndexed'
    <2>1. CASE S!CreateStore(r)
      BY <2>1, ShareBegun DEF S!CreateStore
    <2>2. CASE S!RecordShare(r)
      BY <2>2, ShareDone DEF S!RecordShare
    <2>3. CASE S!OpenLast(r)
      BY <2>3, ShareOpened DEF S!OpenLast
    <2>4. ASSUME NEW op \in {"delete", "expire"}, S!BeginDelete(r, op) PROVE S!EndedMeansGone' /\ S!IndexNotAhead' /\ S!LiveIsIndexed'
      BY <2>4, ShareBegun DEF S!BeginDelete
    <2>5. CASE S!DestroyObject(r)
      BY <2>5, ShareDone, ShareMarks DEF S!DestroyObject
    <2>6. CASE S!DestroyRead(r)
      BY <2>6, ShareDone, ShareGoes DEF S!DestroyRead
    <2>7. CASE S!DestroyWrite(r)
      BY <2>7, ShareMarks DEF S!DestroyWrite
    <2>8. CASE S!BeginRevoke(r)
      BY <2>8, ShareBegun DEF S!BeginRevoke
    <2>9. CASE S!RevokeUpdate(r)
      BY <2>9, ShareDone, ShareGoes DEF S!RevokeUpdate
    <2>10. CASE S!BeginAdminRevoke(r)
      BY <2>10, ShareBegun DEF S!BeginAdminRevoke
    <2>11. CASE S!PurgeShare(r)
      BY <2>11, ShareDone, ShareGoes DEF S!PurgeShare
    <2>12. CASE S!AdminRevokeUpdate(r)
      BY <2>12, ShareDone DEF S!AdminRevokeUpdate
    <2>13. ASSUME NEW op \in {"change", "adminChange"}, NEW want \in S!Expiries, S!BeginChange(r, op, want)
          PROVE  S!EndedMeansGone' /\ S!IndexNotAhead' /\ S!LiveIsIndexed'
      BY <2>13, ShareBegun DEF S!BeginChange
    <2>14. CASE S!Recheck(r)
      BY <2>14, ShareDone, ShareGoes DEF S!Recheck
    <2>15. CASE S!ExtendObject(r)
      BY <2>15, ShareDone, ShareGoes, ShareMarks DEF S!ExtendObject
    <2>16. CASE S!ExtendRead(r)
      BY <2>16, ShareDone, ShareGoes, ShareMarks DEF S!ExtendRead
    <2>17. CASE S!ExtendWrite(r)
      BY <2>17, ShareGoes DEF S!ExtendWrite
    <2>18. CASE S!PatchRow(r)
      BY <2>18, ShareDone DEF S!PatchRow
    <2>19. CASE S!BeginList(r)
      BY <2>19, ShareBegun DEF S!BeginList
    <2>20. CASE S!ListLook(r)
      BY <2>20, ShareDone, ShareMarks DEF S!ListLook
    <2>21. CASE S!Mark(r)
      <3>1. Becomes(r, "none", "idle", 1, "ended") /\ job[r].at = "mark" /\ UNCHANGED <<content, made, crashes>>
        BY <2>21, ShareDone DEF S!Mark
      <3>2. CASE row.status = "active"
        <4>1. row' = [row EXCEPT !.status = job[r].ending] /\ job[r] \in S!Job
          BY <2>21, <3>2 DEF S!Mark
        <4>2. job[r].ending \in {"consumed", "deleted", "ended"} /\ row'.status = job[r].ending /\ row'.expires = row.expires
          BY <4>1, ShareRows
        <4> QED BY <3>1, <3>2, <4>2
      <3>3. CASE row.status # "active"
        <4>1. row' = row
          BY <2>21, <3>3 DEF S!Mark
        <4> QED BY <3>1, <3>3, <4>1
      <3> QED BY <3>2, <3>3
    <2>22. CASE S!Crash(r)
      BY <2>22, ShareDone DEF S!Crash
    <2> QED BY <1>3, <2>1, <2>2, <2>3, <2>4, <2>5, <2>6, <2>7, <2>8, <2>9, <2>10, <2>11, <2>12,
               <2>13, <2>14, <2>15, <2>16, <2>17, <2>18, <2>19, <2>20, <2>21, <2>22 DEF S!Step
  <1> QED BY <1>1, <1>2, <1>3 DEF S!Next

LEMMA ShareEndingsFinal == ASSUME ShareInv, S!Next PROVE S!EndingsFinal
  <1> USE DEF ShareInv, ShareBegins, Creating, ShareKnown, S!TypeOK, S!Endings, S!Is, S!Indexed, S!EndingsFinal
  <1>1. CASE S!Expire
    BY <1>1 DEF S!Expire
  <1>2. ASSUME NEW on \in BOOLEAN, S!SetLock(on) PROVE S!EndingsFinal
    BY <1>2 DEF S!SetLock
  <1>3. ASSUME NEW r \in ShareRequests, S!Step(r) PROVE S!EndingsFinal
    <2>1. CASE S!CreateStore(r)
      BY <2>1 DEF S!CreateStore
    <2>2. CASE S!RecordShare(r)
      BY <2>2 DEF S!RecordShare
    <2>3. CASE S!OpenLast(r)
      BY <2>3 DEF S!OpenLast
    <2>4. ASSUME NEW op \in {"delete", "expire"}, S!BeginDelete(r, op) PROVE S!EndingsFinal
      BY <2>4 DEF S!BeginDelete
    <2>5. CASE S!DestroyObject(r)
      BY <2>5 DEF S!DestroyObject
    <2>6. CASE S!DestroyRead(r)
      BY <2>6 DEF S!DestroyRead
    <2>7. CASE S!DestroyWrite(r)
      BY <2>7 DEF S!DestroyWrite
    <2>8. CASE S!BeginRevoke(r)
      BY <2>8 DEF S!BeginRevoke
    <2>9. CASE S!RevokeUpdate(r)
      BY <2>9 DEF S!RevokeUpdate
    <2>10. CASE S!BeginAdminRevoke(r)
      BY <2>10 DEF S!BeginAdminRevoke
    <2>11. CASE S!PurgeShare(r)
      BY <2>11 DEF S!PurgeShare
    <2>12. CASE S!AdminRevokeUpdate(r)
      BY <2>12 DEF S!AdminRevokeUpdate
    <2>13. ASSUME NEW op \in {"change", "adminChange"}, NEW want \in S!Expiries, S!BeginChange(r, op, want) PROVE S!EndingsFinal
      BY <2>13 DEF S!BeginChange
    <2>14. CASE S!Recheck(r)
      BY <2>14 DEF S!Recheck
    <2>15. CASE S!ExtendObject(r)
      BY <2>15 DEF S!ExtendObject
    <2>16. CASE S!ExtendRead(r)
      BY <2>16 DEF S!ExtendRead
    <2>17. CASE S!ExtendWrite(r)
      BY <2>17 DEF S!ExtendWrite
    <2>18. CASE S!PatchRow(r)
      BY <2>18 DEF S!PatchRow
    <2>19. CASE S!BeginList(r)
      BY <2>19 DEF S!BeginList
    <2>20. CASE S!ListLook(r)
      BY <2>20 DEF S!ListLook
    <2>21. CASE S!Mark(r)
      BY <2>21 DEF S!Mark
    <2>22. CASE S!Crash(r)
      BY <2>22 DEF S!Crash
    <2> QED BY <1>3, <2>1, <2>2, <2>3, <2>4, <2>5, <2>6, <2>7, <2>8, <2>9, <2>10, <2>11, <2>12,
               <2>13, <2>14, <2>15, <2>16, <2>17, <2>18, <2>19, <2>20, <2>21, <2>22 DEF S!Step
  <1> QED BY <1>1, <1>2, <1>3 DEF S!Next

LEMMA ShareStep == ASSUME ShareInv, S!Next PROVE ShareInv' /\ S!EndingsFinal /\ S!RevokeMarksFirst
  <1>1. S!RevokeMarksFirst
    BY DEF ShareInv, ShareOrder, S!RevokeMarksFirst
  <1> QED BY <1>1, ShareTypes, ShareBeginsKept, ShareCallsKept, ShareOrderKept, ShareSafeKept, ShareEndingsFinal DEF ShareInv

\* Whatever requests about a share interleave or stop half way: a row never says "ended" of content that is
\* still served, nor promises it longer than it lasts, a live share has a row, an ending is final, and the
\* sender's revoke destroys nothing it did not mark (routes/private.js, routes/public.js, routes/admin.js).
THEOREM DirectoryShareSafe == Spec => ShareSafe
  <1> DEFINE Good == part = "share" => ShareInv
             Steps == part = "share" => S!EndingsFinal /\ S!RevokeMarksFirst
  <1>1. Init => Good
    BY ShareInit DEF Init, InitShare, InitSignIn, InitSession, InitLimits, InitImport, InitPage
  <1>2. ASSUME Good, [Next]_vars PROVE Good' /\ (part = "share" => [S!EndingsFinal /\ S!RevokeMarksFirst]_vars)
    <2>1. CASE InShare(S!Next)
      BY <1>2, <2>1, ShareStep DEF InShare
    <2>2. CASE InSignIn(A!Next) \/ InSession(C!Next) \/ InLimits(L!Next) \/ InImport(I!Next) \/ InPage(P!Next)
      BY <2>2 DEF InSignIn, InSession, InLimits, InImport, InPage
    <2>3. CASE UNCHANGED vars
      <3>1. UNCHANGED <<part, content, row, job, made, crashes>>
        BY <2>3 DEF vars
      <3> QED BY <1>2, <2>3, <3>1
              DEF ShareInv, ShareBegins, ShareCalls, ShareOrder, Creating, ShareKnown, S!TypeOK, S!Is, S!Indexed, S!InKV, S!EndedMeansGone,
                  S!IndexNotAhead, S!LiveIsIndexed
    <2> QED BY <1>2, <2>1, <2>2, <2>3 DEF Next
  <1>3. Good => (part = "share" => S!TypeOK /\ S!EndedMeansGone /\ S!IndexNotAhead /\ S!LiveIsIndexed)
    BY DEF ShareInv
  <1>4. Good /\ [Next]_vars => [Steps]_vars
    BY <1>2
  <1> QED BY <1>1, <1>2, <1>3, <1>4, PTL DEF Spec, ShareSafe

-----------------------------------------------------------------------------
(***************************************************************************)
(* Roles, limits and quotas                                                *)
(***************************************************************************)
\* The rows of a scope in a channel: numbers, of options the channel has.
RowsOf(f, ch) ==
    /\ DOMAIN f \subseteq plan.options \cap L!Options /\ (ch = "api" => DOMAIN f \subseteq L!ApiOptions)
    /\ \A o \in DOMAIN f : f[o] \in Int /\ (o \in {"url", "allowUnlimitedViews"} => f[o] <= 1)
LimitRows ==
    /\ DOMAIN rows = L!Scopes
    /\ \A s \in L!Scopes : DOMAIN rows[s] = L!Channels /\ \A ch \in L!Channels : RowsOf(rows[s][ch], ch)
    /\ DOMAIN rows[L!Default]["all"] # {}

\* A change the owner may ask for.
Asked(c) ==
    /\ c.does \in {"limits", "quotas", "own", "delete", "assign", "settings"} \cap plan.does
    /\ c.does = "limits" => /\ c.scope \in L!Scopes /\ c.channel \in L!Channels /\ c.option \in L!OptionsOf(c.channel)
                            /\ c.value \in L!Values[c.option] \cup {None}
    /\ c.does = "quotas" => c.scope \in L!Scopes /\ c.list \in QuotaLists
    /\ c.does \in {"own", "delete"} => c.scope \in Roles
    /\ c.does = "assign" => c.role \in Roles \cup {None}
    /\ c.does = "settings" => c.key \in {"idle", "grant"} /\ c.value \in {1, 2}
NotAllDefaults(c) == ~(c.does = "limits" /\ c.scope = L!Default /\ c.channel = "all" /\ c.value = None)

Lists ==
    /\ DOMAIN quotas = L!Scopes
    /\ \A s \in L!Scopes : \A q \in quotas[s] : q.max \in Int /\ q.per \in Int
RolesThere == exists \subseteq Roles /\ ownList \subseteq exists /\ role \in exists \cup {None}
LimitInv ==
    /\ plan \in LimitPlans /\ LimitRows /\ Lists /\ RolesThere
    /\ settings \in [{"idle", "grant"} -> {1, 2}]
    /\ DOMAIN asking = Tabs
    /\ \A t \in Tabs : asking[t] # None => Asked(asking[t]) /\ NotAllDefaults(asking[t])

LEMMA LimitConsts ==
    /\ NoLimit \in Nat /\ NoLimit > 2
    /\ L!Default \notin Roles /\ L!Public \notin Roles /\ None \notin Roles /\ L!Default # L!Public
    /\ L!Default \in L!Scopes /\ L!Public \in L!Scopes /\ \A r \in Roles : r \in L!Scopes
  BY DirectoryAssumption DEF DirectoryAssumption, L!LimitsAssumption, L!Default, L!Public, L!Scopes

LEMMA LimitLists == \A l \in QuotaLists : \A q \in l : q.max \in Int /\ q.per \in Int
  BY DirectoryAssumption DEF DirectoryAssumption, L!LimitsAssumption

LEMMA LimitPlan ==
    ASSUME LimitInv
    PROVE  /\ plan.roles \subseteq Roles /\ plan.options \subseteq L!Options /\ plan.options # {}
           /\ plan.scopes \subseteq L!Scopes /\ L!Default \in plan.scopes
  <1>1. plan \in L!Plan
    BY DirectoryAssumption DEF DirectoryAssumption, L!PlansAssumption, LimitInv
  <1>2. plan.roles \in SUBSET Roles /\ plan.options \in (SUBSET L!Options) \ {{}} /\ plan.scopes \in {ss \in SUBSET L!Scopes : L!Default \in ss}
    BY <1>1 DEF L!Plan
  <1>3. plan.options # {} /\ plan.options \subseteq L!Options
    BY <1>2, Zenon
  <1>4. plan.scopes \subseteq L!Scopes /\ L!Default \in plan.scopes
    BY <1>2, Zenon
  <1> QED BY <1>2, <1>3, <1>4

LEMMA ValuesNat ==
    \A o \in L!Options : /\ \A v \in L!Values[o] : v \in Int /\ (o \in {"url", "allowUnlimitedViews"} => v <= 1)
                         /\ L!Def[o] \in Int /\ (o \in {"url", "allowUnlimitedViews"} => L!Def[o] <= 1)
  BY LimitConsts DEF L!Options, L!Values, L!Def

LEMMA LimitChanges == ASSUME NEW c \in L!Changes, c.does \in plan.does, LimitInv PROVE Asked(c)
  <1>0. plan.scopes \subseteq L!Scopes /\ exists \subseteq Roles
    BY LimitPlan DEF LimitInv, RolesThere
  <1>1. ASSUME NEW ch \in L!Channels, NEW o \in L!OptionsOf(ch), NEW s \in plan.scopes, NEW v \in L!Values[o] \cup {None},
               c = [does |-> "limits", scope |-> s, channel |-> ch, option |-> o, value |-> v]
        PROVE Asked(c)
    BY <1>0, <1>1 DEF Asked
  <1>2. ASSUME NEW s \in plan.scopes, NEW l \in QuotaLists, c = [does |-> "quotas", scope |-> s, list |-> l] PROVE Asked(c)
    BY <1>0, <1>2 DEF Asked
  <1>3. ASSUME NEW s \in exists, NEW b \in BOOLEAN, c = [does |-> "own", scope |-> s, on |-> b] PROVE Asked(c)
    BY <1>0, <1>3 DEF Asked
  <1>4. ASSUME NEW s \in exists, c = [does |-> "delete", scope |-> s] PROVE Asked(c)
    BY <1>0, <1>4 DEF Asked
  <1>5. ASSUME NEW r \in exists \cup {None}, c = [does |-> "assign", role |-> r] PROVE Asked(c)
    BY <1>0, <1>5 DEF Asked
  <1>6. ASSUME NEW k \in {"idle", "grant"}, NEW v \in {1, 2}, c = [does |-> "settings", key |-> k, value |-> v] PROVE Asked(c)
    BY <1>6 DEF Asked
  <1> DEFINE A1 == UNION {UNION {{[does |-> "limits", scope |-> s, channel |-> ch, option |-> o, value |-> v] :
                       s \in plan.scopes, v \in L!Values[o] \cup {None}} : o \in L!OptionsOf(ch)} : ch \in L!Channels}
             A2 == {[does |-> "quotas", scope |-> s, list |-> l] : s \in plan.scopes, l \in QuotaLists}
             A3 == {[does |-> "own", scope |-> s, on |-> b] : s \in exists, b \in BOOLEAN}
             A4 == {[does |-> "delete", scope |-> s] : s \in exists}
             A5 == {[does |-> "assign", role |-> r] : r \in exists \cup {None}}
             A6 == {[does |-> "settings", key |-> k, value |-> v] : k \in {"idle", "grant"}, v \in {1, 2}}
  <1>a. L!Changes = A1 \cup A2 \cup A3 \cup A4 \cup A5 \cup A6
    BY DEF L!Changes
  <1>7. c \in A1 \cup A2 \cup A3 \cup A4 \cup A5 \cup A6
    BY <1>a
  <1>8. CASE c \in A1
    <2>1. PICK ch \in L!Channels : c \in UNION {{[does |-> "limits", scope |-> s, channel |-> ch, option |-> o, value |-> v] :
                       s \in plan.scopes, v \in L!Values[o] \cup {None}} : o \in L!OptionsOf(ch)}
      BY <1>8
    <2>2. PICK o \in L!OptionsOf(ch) : c \in {[does |-> "limits", scope |-> s, channel |-> ch, option |-> o, value |-> v] :
                       s \in plan.scopes, v \in L!Values[o] \cup {None}}
      BY <2>1
    <2> QED BY <1>1, <2>2
  <1>9. CASE c \in A2 BY <1>2, <1>9
  <1>10. CASE c \in A3 BY <1>3, <1>10
  <1>11. CASE c \in A4 BY <1>4, <1>11
  <1>12. CASE c \in A5 BY <1>5, <1>12
  <1>13. CASE c \in A6 BY <1>6, <1>13
  <1> HIDE DEF A1, A2, A3, A4, A5, A6
  <1> QED BY <1>7, <1>8, <1>9, <1>10, <1>11, <1>12, <1>13

-----------------------------------------------------------------------------
\* What a scope resolves to, option by option.
AllOf(R, s, o) ==
    IF s # L!Default /\ o \in DOMAIN R[s]["all"] THEN R[s]["all"][o]
    ELSE IF o \in DOMAIN R[L!Default]["all"] THEN R[L!Default]["all"][o] ELSE L!Def[o]
ApiOf(R, s, o) ==
    IF o \notin L!ApiOptions THEN AllOf(R, s, o)
    ELSE IF s # L!Default /\ o \in DOMAIN R[s]["api"] THEN L!Min2(AllOf(R, s, o), R[s]["api"][o])
    ELSE IF o \in DOMAIN R[L!Default]["api"] THEN L!Min2(AllOf(R, s, o), R[L!Default]["api"][o])
    ELSE AllOf(R, s, o)

LEMMA LimitsAll == ASSUME NEW R, NEW s PROVE \A o \in L!Options : L!LimitsIn(R, s)["all"][o] = AllOf(R, s, o) /\ L!LimitsIn(R, s).all[o] = AllOf(R, s, o)
  BY DEF L!LimitsIn, L!ResolveLimits, L!RowsIn, L!NoRows, AllOf

LEMMA LimitsApi == ASSUME NEW R, NEW s PROVE \A o \in L!Options : L!LimitsIn(R, s)["api"][o] = ApiOf(R, s, o) /\ L!LimitsIn(R, s).api[o] = ApiOf(R, s, o)
  <1>1. L!LimitsIn(R, s)["api"] = L!RestrictForApi(L!ResolveLimits(R[L!Default]["all"], L!RowsIn(R, s, "all")), R[L!Default]["api"], L!RowsIn(R, s, "api"))
    BY DEF L!LimitsIn
  <1>2. \A o \in L!Options : L!ResolveLimits(R[L!Default]["all"], L!RowsIn(R, s, "all"))[o] = AllOf(R, s, o)
    BY DEF L!ResolveLimits, L!RowsIn, L!NoRows, AllOf
  <1> QED BY <1>1, <1>2 DEF L!LimitsIn, L!RestrictForApi, L!Narrowed, L!RowsIn, L!NoRows, ApiOf

-----------------------------------------------------------------------------
LEMMA LimitInit == L!Init => LimitInv
  <1> SUFFICES ASSUME L!Init PROVE LimitInv
    OBVIOUS
  <1>1. plan \in LimitPlans /\ plan \in L!Plan
    BY DirectoryAssumption DEF L!Init, DirectoryAssumption, L!PlansAssumption
  <1>2. /\ plan.roles \subseteq Roles /\ plan.options \subseteq L!Options /\ plan.options # {} /\ L!Default \in plan.scopes
    <2>1. plan.roles \in SUBSET Roles /\ plan.options \in (SUBSET L!Options) \ {{}} /\ plan.scopes \in {ss \in SUBSET L!Scopes : L!Default \in ss}
      BY <1>1 DEF L!Plan
    <2> QED BY <2>1
  <1>3. ASSUME NEW s, NEW ch \in L!Channels, NEW f \in L!SomeRows(s, ch)
        PROVE  RowsOf(f, ch) /\ (s = L!Default /\ ch = "all" => DOMAIN f # {})
    <2>1. CASE s \notin plan.scopes
      BY <1>2, <1>3, <2>1 DEF L!SomeRows, RowsOf, L!NoRows
    <2>2. CASE s \in plan.scopes /\ s = L!Default /\ ch = "all"
      <3>1. f \in [plan.options -> 0 .. NoLimit] /\ \A o \in plan.options : f[o] \in L!Values[o]
        BY <1>3, <2>2 DEF L!SomeRows
      <3> QED BY <1>2, <3>1, <2>2, ValuesNat DEF RowsOf
    <2>3. CASE s \in plan.scopes /\ ~(s = L!Default /\ ch = "all")
      <3>1. PICK D \in SUBSET L!OptionsOf(ch) : f \in {g \in [D -> 0 .. NoLimit] : \A o \in D : g[o] \in L!Values[o]}
        BY <1>3, <2>3 DEF L!SomeRows
      <3>2. D \subseteq plan.options \cap L!Options /\ (ch = "api" => D \subseteq L!ApiOptions)
        BY <3>1 DEF L!OptionsOf, L!ApiOptions, L!Options
      <3>3. DOMAIN f = D /\ \A o \in D : f[o] \in L!Values[o] 
        BY <3>1
      <3> QED BY <2>3, <3>2, <3>3, ValuesNat DEF RowsOf
    <2> QED BY <2>1, <2>2, <2>3
  <1>4. LimitRows
    <2>1. PICK da \in L!SomeRows(L!Default, "all"), dk \in L!SomeRows(L!Default, "api") :
            \E ra \in UNION {L!SomeRows(r, "all") : r \in Roles}, rk \in UNION {L!SomeRows(r, "api") : r \in Roles} :
              rows = [s \in L!Scopes |-> IF s = L!Default THEN [all |-> da, api |-> dk]
                                         ELSE IF s \in plan.roles THEN [all |-> ra, api |-> rk]
                                         ELSE [ch \in L!Channels |-> L!NoRows]]
      BY DEF L!Init
    <2>2. PICK ra \in UNION {L!SomeRows(r, "all") : r \in Roles}, rk \in UNION {L!SomeRows(r, "api") : r \in Roles} :
              rows = [s \in L!Scopes |-> IF s = L!Default THEN [all |-> da, api |-> dk]
                                         ELSE IF s \in plan.roles THEN [all |-> ra, api |-> rk]
                                         ELSE [ch \in L!Channels |-> L!NoRows]]
      BY <2>1
    <2>3. "all" \in L!Channels /\ "api" \in L!Channels /\ \A ch \in L!Channels : ch = "all" \/ ch = "api"
      BY DEF L!Channels
    <2>4. RowsOf(da, "all") /\ RowsOf(dk, "api") /\ DOMAIN da # {}
      BY <1>3, <2>1, <2>3
    <2>5. RowsOf(ra, "all") /\ RowsOf(rk, "api")
      BY <1>3, <2>2, <2>3
    <2>6. \A ch \in L!Channels : RowsOf(L!NoRows, ch)
      BY DEF RowsOf, L!NoRows
    <2>7. \A x, y : LET p == [all |-> x, api |-> y] IN DOMAIN p = L!Channels /\ p["all"] = x /\ p["api"] = y
      BY DEF L!Channels
    <2>8. DOMAIN rows = L!Scopes /\ rows[L!Default] = [all |-> da, api |-> dk]
      BY <2>2, LimitConsts
    <2>9. ASSUME NEW s \in L!Scopes PROVE DOMAIN rows[s] = L!Channels /\ \A ch \in L!Channels : RowsOf(rows[s][ch], ch)
      <3>1. CASE s = L!Default
        BY <2>3, <2>4, <2>7, <2>8, <3>1
      <3>2. CASE s # L!Default /\ s \in plan.roles
        <4>1. rows[s] = [all |-> ra, api |-> rk]
          BY <2>2, <3>2
        <4> QED BY <2>3, <2>5, <2>7, <4>1
      <3>3. CASE s # L!Default /\ s \notin plan.roles
        <4>1. rows[s] = [ch \in L!Channels |-> L!NoRows]
          BY <2>2, <3>3
        <4> QED BY <2>6, <4>1
      <3> QED BY <3>1, <3>2, <3>3
    <2> QED BY <2>4, <2>7, <2>8, <2>9 DEF LimitRows
  <1>5. Lists
    <2>1. PICK dq \in QuotaLists \cup {{}}, rq \in QuotaLists \cup {{}} :
            quotas = [s \in L!Scopes |-> IF s = L!Default THEN dq ELSE IF s \in plan.roles THEN rq ELSE {}]
      BY DEF L!Init
    <2> QED BY <2>1, LimitLists DEF Lists
  <1>6. RolesThere
    BY <1>2 DEF L!Init, RolesThere
  <1>7. settings \in [{"idle", "grant"} -> {1, 2}] /\ asking = [t \in Tabs |-> None]
    BY DEF L!Init
  <1> QED BY <1>1, <1>4, <1>5, <1>6, <1>7 DEF LimitInv

\* What a change of limits makes of the rows.
LEMMA LimitRowsAfter ==
    ASSUME LimitInv, NEW c, c.does = "limits", Asked(c)
    PROVE  LET R == L!RowsAfter(c) IN
           /\ DOMAIN R = L!Scopes /\ \A s \in L!Scopes : DOMAIN R[s] = L!Channels
           /\ \A s \in L!Scopes, ch \in L!Channels : s # c.scope \/ ch # c.channel => R[s][ch] = rows[s][ch]
           /\ RowsOf(R[c.scope][c.channel], c.channel)
           /\ c.value # None => DOMAIN R[c.scope][c.channel] = DOMAIN rows[c.scope][c.channel] \cup {c.option}
           /\ c.value = None => DOMAIN R[c.scope][c.channel] = DOMAIN rows[c.scope][c.channel] \ {c.option}
           /\ \A o : o # c.option => R[c.scope][c.channel][o] = rows[c.scope][c.channel][o] \/ o \notin DOMAIN rows[c.scope][c.channel]
  <1> DEFINE f == rows[c.scope][c.channel]
             g == IF c.value = None THEN L!WithoutRow(f, c.option) ELSE L!WithRow(f, c.option, c.value)
             R == L!RowsAfter(c)
  <1>1. c.scope \in L!Scopes /\ c.channel \in L!Channels /\ c.option \in L!OptionsOf(c.channel) /\ c.value \in L!Values[c.option] \cup {None}
    BY DEF Asked
  <1>2. c.option \in plan.options \cap L!Options /\ (c.channel = "api" => c.option \in L!ApiOptions)
    BY <1>1 DEF L!OptionsOf, L!ApiOptions, L!Options
  <1>3. R = [rows EXCEPT ![c.scope][c.channel] = g]
    BY DEF L!RowsAfter
  <1>4. DOMAIN rows = L!Scopes /\ (\A s \in L!Scopes : DOMAIN rows[s] = L!Channels) /\ RowsOf(f, c.channel)
    BY <1>1 DEF LimitInv, LimitRows
  <1>5. CASE c.value # None
    <2>1. g = [x \in DOMAIN f \cup {c.option} |-> IF x = c.option THEN c.value ELSE f[x]]
      BY <1>5 DEF L!WithRow
    <2>2. RowsOf(g, c.channel)
      BY <1>1, <1>2, <1>4, <1>5, <2>1, ValuesNat DEF RowsOf
    <2> HIDE DEF g, f
    <2>3. R[c.scope][c.channel] = g
      BY <1>1, <1>3, <1>4
    <2>4. DOMAIN R = L!Scopes /\ \A s \in L!Scopes : DOMAIN R[s] = L!Channels
      BY <1>3, <1>4
    <2>5. \A s \in L!Scopes, ch \in L!Channels : s # c.scope \/ ch # c.channel => R[s][ch] = rows[s][ch]
      BY <1>3, <1>4
    <2> QED BY <1>5, <2>1, <2>2, <2>3, <2>4, <2>5 DEF f
  <1>6. CASE c.value = None
    <2>1. g = [x \in DOMAIN f \ {c.option} |-> f[x]]
      BY <1>6 DEF L!WithoutRow
    <2>2. RowsOf(g, c.channel)
      BY <1>4, <2>1 DEF RowsOf
    <2> HIDE DEF g, f
    <2>3. R[c.scope][c.channel] = g
      BY <1>1, <1>3, <1>4
    <2>4. DOMAIN R = L!Scopes /\ \A s \in L!Scopes : DOMAIN R[s] = L!Channels
      BY <1>3, <1>4
    <2>5. \A s \in L!Scopes, ch \in L!Channels : s # c.scope \/ ch # c.channel => R[s][ch] = rows[s][ch]
      BY <1>3, <1>4
    <2> QED BY <1>6, <2>1, <2>2, <2>3, <2>4, <2>5 DEF f
  <1> QED BY <1>5, <1>6

LEMMA LimitWritten ==
    ASSUME LimitInv, plan' = plan, NEW c, Asked(c), NotAllDefaults(c), L!StillMay(c), L!Write(c)
    PROVE  LimitRows' /\ Lists' /\ RolesThere' /\ settings' \in [{"idle", "grant"} -> {1, 2}]
  <1> USE DEF LimitInv
  <1>r. \A f, ch : RowsOf(f, ch) => RowsOf(f, ch)'
    BY DEF RowsOf
  <1>k. ASSUME UNCHANGED rows PROVE LimitRows'
    BY <1>k, <1>r DEF LimitRows
  <1>1. CASE c.does = "limits" /\ L!SetLimits(c)
    <2>1. rows' = L!RowsAfter(c) /\ UNCHANGED <<exists, quotas, ownList, role, settings>>
      BY <1>1 DEF L!SetLimits
    <2> DEFINE R == L!RowsAfter(c)
    <2>2. /\ DOMAIN R = L!Scopes /\ \A s \in L!Scopes : DOMAIN R[s] = L!Channels
          /\ \A s \in L!Scopes, ch \in L!Channels : s # c.scope \/ ch # c.channel => R[s][ch] = rows[s][ch]
          /\ RowsOf(R[c.scope][c.channel], c.channel)
          /\ c.value # None => DOMAIN R[c.scope][c.channel] = DOMAIN rows[c.scope][c.channel] \cup {c.option}
      BY <1>1, LimitRowsAfter
    <2> HIDE DEF R
    <2>3. "all" \in L!Channels /\ L!Default \in L!Scopes
      BY LimitConsts DEF L!Channels
    <2>4. \A s \in L!Scopes, ch \in L!Channels : RowsOf(R[s][ch], ch)
      BY <2>2 DEF LimitRows
    <2>5. DOMAIN R[L!Default]["all"] # {}
      <3>1. CASE L!Default = c.scope /\ c.channel = "all"
        BY <1>1, <2>2, <3>1 DEF NotAllDefaults
      <3>2. CASE ~(L!Default = c.scope /\ c.channel = "all")
        BY <2>2, <2>3, <3>2 DEF LimitRows
      <3> QED BY <3>1, <3>2
    <2>6. LimitRows'
      BY <1>r, <2>1, <2>2, <2>4, <2>5 DEF LimitRows, R
    <2> QED BY <2>1, <2>6 DEF Lists, RolesThere
  <1>2. CASE c.does = "quotas" /\ L!SetQuotas(c)
    <2>1. quotas' = [quotas EXCEPT ![c.scope] = c.list] /\ UNCHANGED <<exists, rows, role, settings>>
      BY <1>2 DEF L!SetQuotas
    <2>2. Lists'
      BY <1>2, <2>1, LimitLists DEF Lists, Asked
    <2>3. RolesThere'
      BY <1>2 DEF L!SetQuotas, RolesThere, L!StillMay, L!May, L!There
    <2> QED BY <1>k, <2>1, <2>2, <2>3
  <1>3. CASE c.does = "own" /\ L!SetOwn(c)
    BY <1>k, <1>3 DEF L!SetOwn, L!OwnAfter, Lists, RolesThere, L!StillMay, L!May, L!There, Asked
  <1>4. CASE c.does = "delete" /\ L!DeleteRole(c)
    <2>1. c.scope \in L!Scopes /\ c.scope # L!Default
      BY <1>4, LimitConsts DEF Asked
    <2>2. LimitRows'
      <3>1. rows' = [rows EXCEPT ![c.scope] = [ch \in L!Channels |-> L!NoRows]]
        BY <1>4 DEF L!DeleteRole
      <3>2. \A ch \in L!Channels : RowsOf(L!NoRows, ch)
        BY DEF RowsOf, L!NoRows
      <3>3. DOMAIN rows' = L!Scopes /\ rows'[L!Default] = rows[L!Default]
        BY <2>1, <3>1, LimitConsts DEF LimitRows
      <3>4. ASSUME NEW s \in L!Scopes PROVE DOMAIN rows'[s] = L!Channels /\ \A ch \in L!Channels : RowsOf(rows'[s][ch], ch)
        <4>1. CASE s = c.scope
          <5>1. rows'[s] = [ch \in L!Channels |-> L!NoRows]
            BY <3>1, <4>1 DEF LimitRows
          <5> QED BY <3>2, <5>1
        <4>2. CASE s # c.scope
          <5>1. rows'[s] = rows[s]
            BY <3>1, <4>2 DEF LimitRows
          <5> QED BY <5>1 DEF LimitRows
        <4> QED BY <4>1, <4>2
      <3> QED BY <1>r, <3>3, <3>4 DEF LimitRows
    <2>3. Lists'
      BY <1>4, <2>1 DEF L!DeleteRole, Lists
    <2> QED BY <1>4, <2>2, <2>3 DEF L!DeleteRole, RolesThere
  <1>5. CASE c.does = "assign" /\ L!SetUserRole(c)
    BY <1>k, <1>5 DEF L!SetUserRole, Lists, RolesThere, L!StillMay, L!May
  <1>6. CASE c.does = "settings" /\ L!SetSettings(c)
    BY <1>k, <1>6 DEF L!SetSettings, Lists, RolesThere, Asked
  <1> QED BY <1>1, <1>2, <1>3, <1>4, <1>5, <1>6 DEF L!Write

LEMMA LimitStep == ASSUME LimitInv, L!Next PROVE LimitInv'
  <1> USE DEF LimitInv
  <1>0. PICK t \in Tabs :
        \/ \E c \in {d \in L!Changes : d.does \in plan.does} : L!Change(t, c) \/ L!Ask(t, c)
        \/ L!Confirmed(t) \/ L!Refused(t)
        \/ \E r \in Roles, from \in L!Scopes \cup {None} : "create" \in plan.does /\ L!CreateRole(t, r, from)
    BY DEF L!Next
  <1>a. ASSUME plan' = plan PROVE \A c : Asked(c) => Asked(c)'
    BY <1>a DEF Asked, L!OptionsOf
  <1>n. \A c : NotAllDefaults(c)' <=> NotAllDefaults(c)
    BY DEF NotAllDefaults
  <1>m. \A c : L!May(c) => L!StillMay(c) /\ NotAllDefaults(c)
    BY DEF L!May, L!StillMay, NotAllDefaults
  <1>u. ASSUME UNCHANGED <<plan, rows, quotas, exists, ownList, role, settings>> PROVE LimitRows' /\ Lists' /\ RolesThere' /\ settings' = settings
    BY <1>u DEF LimitRows, RowsOf, Lists, RolesThere
  <1>1. ASSUME NEW c \in L!Changes, c.does \in plan.does, L!Change(t, c) PROVE LimitInv'
    <2>1. Asked(c) /\ L!May(c) /\ L!Write(c) /\ UNCHANGED <<plan, asking>>
      BY <1>1, LimitChanges DEF L!Change
    <2>2. LimitRows' /\ Lists' /\ RolesThere' /\ settings' \in [{"idle", "grant"} -> {1, 2}]
      BY <1>m, <2>1, LimitWritten
    <2> QED BY <1>a, <1>n, <2>1, <2>2
  <1>2. ASSUME NEW c \in L!Changes, c.does \in plan.does, L!Ask(t, c) PROVE LimitInv'
    <2>1. Asked(c) /\ NotAllDefaults(c) /\ asking' = [asking EXCEPT ![t] = c] /\ UNCHANGED <<plan, exists, rows, quotas, ownList, role, settings>>
      BY <1>2, <1>m, LimitChanges DEF L!Ask
    <2> QED BY <1>a, <1>n, <1>u, <2>1
  <1>3. CASE L!Confirmed(t)
    <2>1. asking' = [asking EXCEPT ![t] = None] /\ UNCHANGED plan /\ L!Write(asking[t]) /\ L!StillMay(asking[t]) /\ asking[t] # None
      BY <1>3 DEF L!Confirmed
    <2>2. LimitRows' /\ Lists' /\ RolesThere' /\ settings' \in [{"idle", "grant"} -> {1, 2}]
      BY <2>1, LimitWritten
    <2> QED BY <1>a, <1>n, <2>1, <2>2
  <1>4. CASE L!Refused(t)
    <2>1. asking' = [asking EXCEPT ![t] = None] /\ UNCHANGED <<plan, exists, rows, quotas, ownList, role, settings>>
      BY <1>4 DEF L!Refused
    <2> QED BY <1>a, <1>n, <1>u, <2>1
  <1>5. ASSUME NEW r \in Roles, NEW from \in L!Scopes \cup {None}, L!CreateRole(t, r, from) PROVE LimitInv'
    <2>1. r \notin exists /\ exists' = exists \cup {r} /\ UNCHANGED <<plan, role, settings, asking>>
      BY <1>5 DEF L!CreateRole
    <2>2. CASE from = None
      BY <1>5, <1>u, <1>a, <1>n, <2>1, <2>2 DEF L!CreateRole, LimitRows, RowsOf, Lists, RolesThere
    <2>3. CASE from # None
      <3>1. /\ from \in L!Scopes /\ rows' = [rows EXCEPT ![r] = rows[from]] /\ quotas' = [quotas EXCEPT ![r] = quotas[from]]
            /\ ownList' \subseteq ownList \cup {r} /\ r \in L!Scopes /\ r # L!Default
        BY <1>5, <2>3, LimitConsts DEF L!CreateRole
      <3>2. LimitRows'
        <4>1. \A f, ch : RowsOf(f, ch) => RowsOf(f, ch)'
          BY <2>1 DEF RowsOf
        <4>2. DOMAIN rows' = L!Scopes /\ rows'[L!Default] = rows[L!Default] /\ \A s \in L!Scopes : rows'[s] = rows[s] \/ rows'[s] = rows[from]
          BY <3>1, LimitConsts DEF LimitRows
        <4> QED BY <3>1, <4>1, <4>2 DEF LimitRows
      <3>3. Lists'
        BY <3>1 DEF Lists
      <3> QED BY <1>a, <1>n, <2>1, <3>1, <3>2, <3>3 DEF RolesThere
    <2> QED BY <2>2, <2>3
  <1> QED BY <1>0, <1>1, <1>2, <1>3, <1>4, <1>5

-----------------------------------------------------------------------------
\* What follows of the values.
Switches == {"url", "allowUnlimitedViews"}
Values(R) ==
    \A s \in L!Scopes, ch \in L!Channels : \A o \in DOMAIN R[s][ch] : R[s][ch][o] \in Int /\ (o \in Switches => R[s][ch][o] <= 1)

LEMMA LimitValues == LimitRows => Values(rows)
  BY DEF LimitRows, RowsOf, Values, Switches

LEMMA ValuesResolved ==
    ASSUME NEW R, Values(R), NEW s \in L!Scopes, NEW o \in L!Options
    PROVE  /\ AllOf(R, s, o) \in Int /\ ApiOf(R, s, o) \in Int /\ ApiOf(R, s, o) <= AllOf(R, s, o)
           /\ o \in Switches => AllOf(R, s, o) <= 1
  <1>1. L!Default \in L!Scopes /\ "all" \in L!Channels /\ "api" \in L!Channels
    BY LimitConsts DEF L!Channels
  <1>2. L!Def[o] \in Int /\ (o \in Switches => L!Def[o] <= 1)
    BY ValuesNat DEF Switches
  <1>3. AllOf(R, s, o) \in Int /\ (o \in Switches => AllOf(R, s, o) <= 1)
    BY <1>1, <1>2 DEF AllOf, Values
  <1> DEFINE a == AllOf(R, s, o)
  <1>4. ApiOf(R, s, o) = a \/ \E v \in Int : ApiOf(R, s, o) = L!Min2(a, v)
    BY <1>1 DEF ApiOf, Values
  <1> HIDE DEF a
  <1> QED BY <1>3, <1>4 DEF L!Min2, a

LEMMA LimitScopes ==
    ASSUME RolesThere, NEW a \in {L!User, L!Public}
    PROVE  L!ScopeOf(a) \in L!Scopes
  BY LimitConsts DEF RolesThere, L!ScopeOf, L!ScopeIn

LEMMA LimitTypes == LimitInv => L!TypeOK
  <1> SUFFICES ASSUME LimitInv PROVE L!TypeOK
    OBVIOUS
  <1>1. ASSUME NEW s \in L!Scopes, NEW ch \in L!Channels
        PROVE  DOMAIN rows[s][ch] \subseteq L!OptionsOf(ch) /\ (s = L!Default => rows[s]["all"] # L!NoRows)
    <2>1. DOMAIN rows[s][ch] \subseteq plan.options \cap L!Options /\ (ch = "api" => DOMAIN rows[s][ch] \subseteq L!ApiOptions)
      BY DEF LimitInv, LimitRows, RowsOf
    <2>2. DOMAIN L!NoRows = {}
      BY DEF L!NoRows
    <2> QED BY <2>1, <2>2 DEF L!OptionsOf, LimitInv, LimitRows
  <1> QED BY <1>1 DEF L!TypeOK, LimitInv, RolesThere, Asked

LEMMA LimitNarrow == LimitInv => L!KeysOnlyNarrow
  <1> SUFFICES ASSUME LimitInv, NEW a \in {L!User, L!Public}, NEW q \in L!Requests,
                      L!Allows(L!LimitsIn(rows, L!ScopeOf(a)).api, q)
               PROVE  L!Allows(L!LimitsIn(rows, L!ScopeOf(a)).all, q)
    BY DEF L!KeysOnlyNarrow
  <1> DEFINE s == L!ScopeOf(a)
  <1>1. s \in L!Scopes /\ Values(rows)
    BY LimitScopes, LimitValues DEF LimitInv
  <1> HIDE DEF s
  <1>2. {"url", "allowUnlimitedViews", "maxViews"} \subseteq L!Options
    BY DEF L!Options
  <1>3. \A o \in L!Options : /\ AllOf(rows, s, o) \in Int /\ ApiOf(rows, s, o) \in Int /\ ApiOf(rows, s, o) <= AllOf(rows, s, o)
                             /\ o \in Switches => AllOf(rows, s, o) <= 1
    BY <1>1, ValuesResolved
  <1>4. \A o \in L!Options : L!LimitsIn(rows, s).api[o] = ApiOf(rows, s, o) /\ L!LimitsIn(rows, s).all[o] = AllOf(rows, s, o)
    BY LimitsAll, LimitsApi
  <1>5. q.views \in Int
    BY LimitConsts DEF L!Requests
  <1>6. /\ q.url => ApiOf(rows, s, "url") = 1
        /\ IF q.views = NoLimit THEN ApiOf(rows, s, "allowUnlimitedViews") = 1 ELSE q.views <= ApiOf(rows, s, "maxViews")
    BY <1>2, <1>4 DEF L!Allows, s
  <1>7. /\ q.url => AllOf(rows, s, "url") = 1
        /\ IF q.views = NoLimit THEN AllOf(rows, s, "allowUnlimitedViews") = 1 ELSE q.views <= AllOf(rows, s, "maxViews")
    BY <1>2, <1>3, <1>5, <1>6 DEF Switches
  <1> QED BY <1>2, <1>4, <1>7 DEF L!Allows, s

-----------------------------------------------------------------------------
\* What an account has, compared before and after a step.
NoLooser(a) ==
    /\ ~L!Looser(a, "all", L!Options \ {"fileGrantSec"})
    /\ (rows[L!ScopeOf(a)]' # rows[L!ScopeOf(a)] \/ L!ScopeOf(a)' # L!ScopeOf(a)) => ~L!Looser(a, "api", L!ApiOptions)
QuotasKept(a) == \A q \in L!QuotasOf(a) : \E n \in L!QuotasOf(a)' : L!Keeps(n, q)

LEMMA AllNoLooser ==
    ASSUME NEW a, NEW s, NEW t, s = L!ScopeOf(a), t = L!ScopeOf(a)',
           \A o \in L!Options \ {"fileGrantSec"} : L!Means(o, AllOf(rows', t, o), settings') <= L!Means(o, AllOf(rows, s, o), settings),
           \A o \in L!Options : L!Means(o, AllOf(rows', t, o), settings') \in Int /\ L!Means(o, AllOf(rows, s, o), settings) \in Int
    PROVE  ~L!Looser(a, "all", L!Options \ {"fileGrantSec"})
  <1>1. \A o \in L!Options : L!LimitsIn(rows, s)["all"][o] = AllOf(rows, s, o)
    BY LimitsAll
  <1>2. \A o \in L!Options : L!LimitsIn(rows', t)["all"][o] = AllOf(rows', t, o)
    BY LimitsAll
  <1> QED BY <1>1, <1>2 DEF L!Looser

LEMMA ApiNoLooser ==
    ASSUME NEW a, NEW s, NEW t, s = L!ScopeOf(a), t = L!ScopeOf(a)',
           \A o \in L!ApiOptions : /\ ApiOf(rows', t, o) \in Int /\ ApiOf(rows, s, o) \in Int
                                   /\ ApiOf(rows', t, o) <= ApiOf(rows, s, o)
    PROVE  ~L!Looser(a, "api", L!ApiOptions)
  <1>0. L!ApiOptions \subseteq L!Options /\ "sessionIdleSec" \notin L!ApiOptions /\ "fileGrantSec" \notin L!ApiOptions
    BY DEF L!ApiOptions, L!Options
  <1>1. \A o \in L!ApiOptions : L!LimitsIn(rows, s)["api"][o] = ApiOf(rows, s, o)
    BY <1>0, LimitsApi
  <1>2. \A o \in L!ApiOptions : L!LimitsIn(rows', t)["api"][o] = ApiOf(rows', t, o)
    BY <1>0, LimitsApi
  <1>3. \A o \in L!ApiOptions : \A v, vals : L!Means(o, v, vals) = v
    BY <1>0 DEF L!Means
  <1> QED BY <1>1, <1>2, <1>3 DEF L!Looser

LEMMA MeansInt ==
    ASSUME NEW o \in L!Options, NEW v \in Int, NEW vals \in [{"idle", "grant"} -> {1, 2}]
    PROVE  L!Means(o, v, vals) \in Int
  BY DEF L!Means

\* A step that leaves the rows, the scope and the settings of an account alone.
LEMMA SameNoLooser ==
    ASSUME LimitInv, LimitInv', NEW a \in {L!User, L!Public}, L!ScopeOf(a)' = L!ScopeOf(a),
           rows'[L!ScopeOf(a)] = rows[L!ScopeOf(a)], rows'[L!Default] = rows[L!Default],
           \A k \in {"idle", "grant"} : settings'[k] <= settings[k]
    PROVE  NoLooser(a)
  <1> DEFINE s == L!ScopeOf(a)
  <1>1. s \in L!Scopes /\ Values(rows)
    BY LimitScopes, LimitValues DEF LimitInv
  <1>2. \A o \in L!Options : AllOf(rows', s, o) = AllOf(rows, s, o)
    BY DEF AllOf
  <1>3. \A o \in L!Options : AllOf(rows, s, o) \in Int
    BY <1>1, ValuesResolved
  <1>4. settings \in [{"idle", "grant"} -> {1, 2}] /\ settings' \in [{"idle", "grant"} -> {1, 2}]
    BY DEF LimitInv
  <1> HIDE DEF s
  <1>5. \A o \in L!Options : L!Means(o, AllOf(rows, s, o), settings') <= L!Means(o, AllOf(rows, s, o), settings)
    BY <1>3, <1>4 DEF L!Means
  <1>6. \A o \in L!Options : L!Means(o, AllOf(rows, s, o), settings') \in Int /\ L!Means(o, AllOf(rows, s, o), settings) \in Int
    BY <1>3, <1>4, MeansInt
  <1>7. s = L!ScopeOf(a) /\ s = L!ScopeOf(a)'
    BY DEF s
  <1>8. ~L!Looser(a, "all", L!Options \ {"fileGrantSec"})
    BY <1>2, <1>5, <1>6, <1>7, AllNoLooser
  <1> QED BY <1>8 DEF NoLooser, s

\* A step that makes what an account resolves to no looser, scope for scope.
LEMMA TightNoLooser ==
    ASSUME LimitInv, LimitInv', UNCHANGED settings, NEW a \in {L!User, L!Public}, NEW s, NEW t, s = L!ScopeOf(a), t = L!ScopeOf(a)',
           \A o \in L!Options : L!Val(o, AllOf(rows', t, o)) <= L!Val(o, AllOf(rows, s, o)),
           (rows'[s] # rows[s] \/ t # s) => \A o \in L!ApiOptions : ApiOf(rows', t, o) <= ApiOf(rows, s, o)
    PROVE  NoLooser(a)
  <1>1. s \in L!Scopes /\ Values(rows)
    BY LimitScopes, LimitValues DEF LimitInv
  <1>2. t \in L!Scopes /\ Values(rows')
    <2>1. t \in L!Scopes
      BY LimitConsts DEF LimitInv, RolesThere, L!ScopeOf, L!ScopeIn
    <2>2. Values(rows')
      BY DEF LimitInv, LimitRows, RowsOf, Values, Switches
    <2> QED BY <2>1, <2>2
  <1>3. \A o \in L!Options : AllOf(rows, s, o) \in Int /\ AllOf(rows', t, o) \in Int /\ ApiOf(rows, s, o) \in Int /\ ApiOf(rows', t, o) \in Int
    BY <1>1, <1>2, ValuesResolved
  <1>4. settings \in [{"idle", "grant"} -> {1, 2}] /\ settings' = settings
    BY DEF LimitInv
  <1>5. \A o \in L!Options \ {"fileGrantSec"} : \A v : L!Means(o, v, settings) = L!Val(o, v)
    BY DEF L!Means, L!Val
  <1>6. \A o \in L!Options : L!Means(o, AllOf(rows', t, o), settings') \in Int /\ L!Means(o, AllOf(rows, s, o), settings) \in Int
    BY <1>3, <1>4, MeansInt
  <1>7. \A o \in L!Options \ {"fileGrantSec"} : L!Means(o, AllOf(rows', t, o), settings') <= L!Means(o, AllOf(rows, s, o), settings)
    BY <1>4, <1>5
  <1>8. ~L!Looser(a, "all", L!Options \ {"fileGrantSec"})
    BY <1>6, <1>7, AllNoLooser
  <1>9. (rows'[s] # rows[s] \/ t # s) => ~L!Looser(a, "api", L!ApiOptions)
    <2>1. L!ApiOptions \subseteq L!Options
      BY DEF L!ApiOptions, L!Options
    <2> QED BY <1>3, <2>1, ApiNoLooser
  <1>10. rows[L!ScopeOf(a)]' = rows'[t]
    OBVIOUS
  <1>11. t = s => (rows[L!ScopeOf(a)]' # rows[L!ScopeOf(a)] <=> rows'[s] # rows[s])
    BY <1>10
  <1> QED BY <1>8, <1>9, <1>11 DEF NoLooser

\* What "nothing is weakened" says.
LEMMA NotWeakened ==
    ASSUME NEW before, NEW after, L!WeakenedLimits(before, after) = {},
           \A o \in L!Options : L!Val(o, before[o]) \in Int /\ L!Val(o, after[o]) \in Int
    PROVE  \A o \in L!Options : L!Val(o, after[o]) <= L!Val(o, before[o])
  <1>1. \A o \in L!Options : ~(L!Val(o, after[o]) > L!Val(o, before[o]))
    BY DEF L!WeakenedLimits
  <1> QED BY <1>1

LEMMA QuotasNotWeakened ==
    ASSUME NEW before, NEW after, L!WeakenedQuotas(before, after) = {}
    PROVE  \A q \in before : \E n \in after : L!Keeps(n, q)
  BY DEF L!WeakenedQuotas, L!Keeps

LEMMA ValInt ==
    ASSUME LimitInv, NEW o, NEW v \in Int
    PROVE  L!Val(o, v) \in Int
  BY DEF LimitInv, L!Val

\* Rows of a scope that are set.
LEMMA SetLimitsTight ==
    ASSUME LimitInv, LimitInv', NEW c, Asked(c), c.does = "limits", L!Weak(c) = {}, L!SetLimits(c), NEW a \in {L!User, L!Public}
    PROVE  NoLooser(a)
  <1> DEFINE s == L!ScopeOf(a)
             d == c.scope
             R == L!RowsAfter(c)
  <1>0. rows' = R /\ UNCHANGED <<exists, quotas, ownList, role, settings>>
    BY DEF L!SetLimits
  <1>1. s \in L!Scopes /\ d \in L!Scopes /\ L!Default \in L!Scopes /\ c.channel \in L!Channels
    BY LimitScopes, LimitConsts DEF LimitInv, Asked
  <1>2. L!ScopeOf(a)' = s
    BY <1>0 DEF L!ScopeOf
  <1>3. Values(rows) /\ Values(rows')
    <2>1. Values(rows)
      BY LimitValues DEF LimitInv
    <2>2. Values(rows')
      BY DEF LimitInv, LimitRows, RowsOf, Values, Switches
    <2> QED BY <2>1, <2>2
  <1>4. \A x \in L!Scopes, ch \in L!Channels : x # d \/ ch # c.channel => rows'[x][ch] = rows[x][ch]
    BY <1>0, LimitRowsAfter
  <1>5. L!WeakenedLimits(L!LimitsIn(rows, d)[c.channel], L!LimitsIn(rows', d)[c.channel]) = {}
    BY <1>0 DEF L!Weak
  <1> HIDE DEF s, d, R
  <1>6. \A x \in L!Scopes : \A o \in L!Options : AllOf(rows, x, o) \in Int /\ AllOf(rows', x, o) \in Int /\ ApiOf(rows, x, o) \in Int /\ ApiOf(rows', x, o) \in Int
    BY <1>3, ValuesResolved
  <1>7. "all" \in L!Channels /\ "api" \in L!Channels /\ (c.channel = "all" \/ c.channel = "api")
    BY <1>1 DEF L!Channels
  <1>8. \A o \in L!ApiOptions : o \in L!Options /\ \A v : L!Val(o, v) = v
    BY DEF L!ApiOptions, L!Options, L!Val
  <1>9. CASE c.channel = "all"
    <2>1. \A o \in L!Options : L!Val(o, AllOf(rows', d, o)) <= L!Val(o, AllOf(rows, d, o))
      <3>1. \A o \in L!Options : L!LimitsIn(rows, d)["all"][o] = AllOf(rows, d, o) /\ L!LimitsIn(rows', d)["all"][o] = AllOf(rows', d, o)
        BY LimitsAll
      <3>2. \A o \in L!Options : L!Val(o, L!LimitsIn(rows, d)["all"][o]) \in Int /\ L!Val(o, L!LimitsIn(rows', d)["all"][o]) \in Int
        BY <1>1, <1>6, <3>1, ValInt
      <3>3. \A o \in L!Options : L!Val(o, L!LimitsIn(rows', d)["all"][o]) <= L!Val(o, L!LimitsIn(rows, d)["all"][o])
        BY <1>5, <1>9, <3>2, NotWeakened
      <3> QED BY <3>1, <3>3
    <2>2. \A o \in L!Options : \/ AllOf(rows', s, o) = AllOf(rows, s, o)
                               \/ AllOf(rows', s, o) = AllOf(rows', d, o) /\ AllOf(rows, s, o) = AllOf(rows, d, o)
      <3>1. CASE s = d
        BY <3>1
      <3>2. CASE s # d /\ d # L!Default
        BY <1>1, <1>4, <1>7, <3>2 DEF AllOf
      <3>3. CASE s # d /\ d = L!Default
        BY <1>1, <1>4, <1>7, <3>3 DEF AllOf
      <3> QED BY <3>1, <3>2, <3>3
    <2>3. \A o \in L!Options : L!Val(o, AllOf(rows, s, o)) \in Int
      BY <1>1, <1>6, ValInt
    <2>4. \A o \in L!Options : L!Val(o, AllOf(rows', s, o)) <= L!Val(o, AllOf(rows, s, o))
      BY <2>1, <2>2, <2>3
    <2>5. \A x \in L!Scopes : rows'[x]["api"] = rows[x]["api"]
      BY <1>4, <1>7, <1>9
    <2>6. \A o \in L!ApiOptions : AllOf(rows', s, o) <= AllOf(rows, s, o)
      BY <1>8, <2>4
    <2>7. \A o \in L!ApiOptions : ApiOf(rows', s, o) <= ApiOf(rows, s, o)
      <3> SUFFICES ASSUME NEW o \in L!ApiOptions PROVE ApiOf(rows', s, o) <= ApiOf(rows, s, o)
        OBVIOUS
      <3>1. AllOf(rows', s, o) <= AllOf(rows, s, o) /\ AllOf(rows', s, o) \in Int /\ AllOf(rows, s, o) \in Int
        BY <1>1, <1>6, <1>8, <2>6
      <3>2. \A x \in L!Scopes : o \in DOMAIN rows[x]["api"] => rows[x]["api"][o] \in Int
        BY <1>3, <1>7 DEF Values
      <3>3. \A v \in Int : L!Min2(AllOf(rows', s, o), v) <= L!Min2(AllOf(rows, s, o), v)
        BY <3>1 DEF L!Min2
      <3> QED BY <1>1, <2>5, <3>1, <3>2, <3>3 DEF ApiOf
    <2> QED BY <1>0, <1>2, <2>4, <2>7, TightNoLooser DEF s
  <1>10. CASE c.channel = "api"
    <2>1. \A x \in L!Scopes : rows'[x]["all"] = rows[x]["all"]
      BY <1>4, <1>7, <1>10
    <2>2. \A o \in L!Options : AllOf(rows', s, o) = AllOf(rows, s, o)
      BY <1>1, <2>1 DEF AllOf
    <2>3. \A o \in L!Options : L!Val(o, AllOf(rows', s, o)) <= L!Val(o, AllOf(rows, s, o))
      <3>1. \A o \in L!Options : L!Val(o, AllOf(rows, s, o)) \in Int
        BY <1>1, <1>6, ValInt
      <3> QED BY <2>2, <3>1
    <2>4. ASSUME rows'[s] # rows[s] PROVE \A o \in L!ApiOptions : ApiOf(rows', s, o) <= ApiOf(rows, s, o)
      <3>1. s = d
        <4>1. ASSUME s # d PROVE rows'[s] = rows[s]
          <5>1. \A ch \in L!Channels : rows'[s][ch] = rows[s][ch]
            BY <1>1, <1>4, <4>1
          <5>2. rows' = [rows EXCEPT ![c.scope][c.channel] = rows'[c.scope][c.channel]]
            BY <1>0, <1>1 DEF R, L!RowsAfter, LimitInv, LimitRows
          <5> QED BY <1>1, <4>1, <5>2 DEF LimitInv, LimitRows, d
        <4> QED BY <2>4, <4>1
      <3>2. \A o \in L!Options : L!LimitsIn(rows, d)["api"][o] = ApiOf(rows, d, o) /\ L!LimitsIn(rows', d)["api"][o] = ApiOf(rows', d, o)
        BY LimitsApi
      <3>3. \A o \in L!Options : L!Val(o, L!LimitsIn(rows, d)["api"][o]) \in Int /\ L!Val(o, L!LimitsIn(rows', d)["api"][o]) \in Int
        BY <1>1, <1>6, <3>2, ValInt
      <3>4. \A o \in L!Options : L!Val(o, L!LimitsIn(rows', d)["api"][o]) <= L!Val(o, L!LimitsIn(rows, d)["api"][o])
        BY <1>5, <1>10, <3>3, NotWeakened
      <3> QED BY <1>8, <3>1, <3>2, <3>4
    <2> QED BY <1>0, <1>2, <2>3, <2>4, TightNoLooser DEF s
  <1> QED BY <1>7, <1>9, <1>10

\* What a change of role compares.
LEMMA RoleTight ==
    ASSUME LimitInv, NEW from \in L!Scopes, NEW to \in L!Scopes, L!RoleChangeWeakens(from, to) = {}
    PROVE  /\ \A o \in L!Options : L!Val(o, AllOf(rows, to, o)) <= L!Val(o, AllOf(rows, from, o))
           /\ \A o \in L!ApiOptions : ApiOf(rows, to, o) <= ApiOf(rows, from, o)
           /\ from # to => L!WeakenedQuotas(L!QuotasIn(from, ownList), L!QuotasIn(to, ownList)) = {}
  <1>1. \A x \in L!Scopes : \A o \in L!Options : AllOf(rows, x, o) \in Int /\ ApiOf(rows, x, o) \in Int
    BY LimitValues, ValuesResolved DEF LimitInv
  <1>2. \A x \in L!Scopes : \A o \in L!Options : /\ L!LimitsIn(rows, x).all[o] = AllOf(rows, x, o)
                                                 /\ L!LimitsIn(rows, x).api[o] = ApiOf(rows, x, o)
    BY LimitsAll, LimitsApi
  <1>3. \A x \in L!Scopes : \A o \in L!Options : /\ L!Val(o, L!LimitsIn(rows, x).all[o]) \in Int
                                                 /\ L!Val(o, L!LimitsIn(rows, x).api[o]) \in Int
    BY <1>1, <1>2, ValInt
  <1>4. \A o \in L!ApiOptions : o \in L!Options /\ \A v : L!Val(o, v) = v
    BY DEF L!ApiOptions, L!Options, L!Val
  <1>5. CASE from = to
    BY <1>1, <1>2, <1>3, <1>4, <1>5
  <1>6. CASE from # to
    <2>1. /\ L!WeakenedLimits(L!LimitsIn(rows, from).all, L!LimitsIn(rows, to).all) = {}
          /\ L!WeakenedLimits(L!LimitsIn(rows, from).api, L!LimitsIn(rows, to).api) = {}
          /\ L!WeakenedQuotas(L!QuotasIn(from, ownList), L!QuotasIn(to, ownList)) = {}
      BY <1>6 DEF L!RoleChangeWeakens
    <2>2. \A o \in L!Options : L!Val(o, L!LimitsIn(rows, to).all[o]) <= L!Val(o, L!LimitsIn(rows, from).all[o])
      BY <1>3, <2>1, NotWeakened
    <2>3. \A o \in L!Options : L!Val(o, L!LimitsIn(rows, to).api[o]) <= L!Val(o, L!LimitsIn(rows, from).api[o])
      BY <1>3, <2>1, NotWeakened
    <2> QED BY <1>2, <1>4, <2>1, <2>2, <2>3
  <1> QED BY <1>5, <1>6

LEMMA QuotasSame ==
    ASSUME LimitInv, NEW a \in {L!User, L!Public}, L!QuotasOf(a) \subseteq L!QuotasOf(a)'
    PROVE  QuotasKept(a)
  <1>1. \A q \in L!QuotasOf(a) : q.max \in Int /\ q.per \in Int
    <2>1. \A s \in L!Scopes : \A q \in quotas[s] : q.max \in Int /\ q.per \in Int
      BY DEF LimitInv, Lists
    <2>2. L!ScopeOf(a) \in L!Scopes /\ L!Default \in L!Scopes /\ L!Public \in L!Scopes
      BY LimitScopes, LimitConsts DEF LimitInv
    <2> QED BY <2>1, <2>2 DEF L!QuotasOf, L!QuotasIn
  <1> QED BY <1>1 DEF QuotasKept, L!Keeps

LEMMA LimitUserScope ==
    ASSUME LimitInv
    PROVE  /\ L!ScopeOf(L!Public) = L!Public
           /\ L!ScopeOf(L!User) = IF role = None THEN L!Default ELSE role
           /\ L!QuotasOf(L!Public) = quotas[L!Default] \cup quotas[L!Public]
           /\ L!QuotasOf(L!User) = quotas[IF role \in ownList THEN role ELSE L!Default]
           /\ None \notin exists /\ L!Default \notin exists /\ L!Public \notin exists /\ ownList \subseteq exists
  BY LimitConsts DEF LimitInv, RolesThere, L!ScopeOf, L!ScopeIn, L!QuotasOf, L!QuotasIn, L!User, L!Public

LEMMA LimitUserScopeAfter ==
    ASSUME LimitInv'
    PROVE  /\ L!ScopeOf(L!Public)' = L!Public
           /\ L!ScopeOf(L!User)' = IF role' = None THEN L!Default ELSE role'
           /\ L!QuotasOf(L!Public)' = quotas'[L!Default] \cup quotas'[L!Public]
           /\ L!QuotasOf(L!User)' = quotas'[IF role' \in ownList' THEN role' ELSE L!Default]
  BY LimitConsts DEF LimitInv, RolesThere, L!ScopeOf, L!ScopeIn, L!QuotasOf, L!QuotasIn, L!User, L!Public

\* A change that is written at once gives nobody more.
LEMMA ChangeTight ==
    ASSUME LimitInv, LimitInv', NEW c, Asked(c), L!May(c), L!Weak(c) = {}, L!Write(c), NEW a \in {L!User, L!Public}
    PROVE  NoLooser(a) /\ QuotasKept(a)
  <1> DEFINE s == L!ScopeOf(a)
  <1>0. /\ L!Default \in L!Scopes /\ L!Public \in L!Scopes /\ DOMAIN rows = L!Scopes /\ DOMAIN quotas = L!Scopes
        /\ settings \in [{"idle", "grant"} -> {1, 2}]
    BY LimitConsts DEF LimitInv, LimitRows, Lists
  <1>a. a = L!User \/ a = L!Public
    OBVIOUS
  <1>s. settings' = settings => \A k \in {"idle", "grant"} : settings'[k] <= settings[k]
    BY <1>0
  <1>1. CASE c.does = "limits" /\ L!SetLimits(c)
    <2>1. NoLooser(a)
      BY <1>1, SetLimitsTight
    <2>2. L!QuotasOf(a)' = L!QuotasOf(a)
      BY <1>1 DEF L!SetLimits, L!QuotasOf, L!QuotasIn, L!ScopeOf, L!ScopeIn
    <2> QED BY <2>1, <2>2, QuotasSame
  <1>2. CASE c.does = "quotas" /\ L!SetQuotas(c)
    <2>0. /\ quotas' = [quotas EXCEPT ![c.scope] = c.list] /\ UNCHANGED <<exists, rows, role, settings>> /\ c.scope \in L!Scopes
          /\ ownList' = IF c.scope \in Roles THEN ownList \cup {c.scope} ELSE ownList
      BY <1>2 DEF L!SetQuotas, Asked
    <2>1. NoLooser(a)
      <3>1. L!ScopeOf(a)' = L!ScopeOf(a)
        BY <2>0 DEF L!ScopeOf
      <3> QED BY <1>s, <2>0, <3>1, SameNoLooser
    <2>2. L!WeakenedQuotas(IF c.scope \in Roles THEN L!QuotasIn(c.scope, ownList) ELSE quotas[c.scope], c.list) = {}
      BY <1>2 DEF L!Weak
    <2>3. \A q \in (IF c.scope \in Roles THEN L!QuotasIn(c.scope, ownList) ELSE quotas[c.scope]) : \E n \in c.list : L!Keeps(n, q)
      BY <2>2, QuotasNotWeakened
    <2>4. quotas'[c.scope] = c.list /\ \A x \in L!Scopes : x # c.scope => quotas'[x] = quotas[x]
      BY <1>0, <2>0
    <2>5. \A x \in L!Scopes : \A q \in quotas[x] : L!Keeps(q, q)
      BY DEF LimitInv, Lists, L!Keeps
    <2>6. ASSUME a = L!Public PROVE QuotasKept(a)
      <3>1. L!QuotasOf(a) = quotas[L!Default] \cup quotas[L!Public] /\ L!QuotasOf(a)' = quotas'[L!Default] \cup quotas'[L!Public]
        BY <2>6, LimitUserScope, LimitUserScopeAfter
      <3>2. ASSUME NEW x \in {L!Default, L!Public}, NEW q \in quotas[x] PROVE \E n \in quotas'[x] : L!Keeps(n, q)
        <4>1. x \in L!Scopes /\ x \notin Roles
          BY LimitConsts
        <4>2. CASE x = c.scope
          BY <2>3, <2>4, <4>1, <4>2
        <4>3. CASE x # c.scope
          BY <2>4, <2>5, <4>1, <4>3
        <4> QED BY <4>2, <4>3
      <3> QED BY <3>1, <3>2 DEF QuotasKept
    <2>7. ASSUME a = L!User PROVE QuotasKept(a)
      <3> DEFINE x == IF role \in ownList THEN role ELSE L!Default
                 y == IF role \in ownList' THEN role ELSE L!Default
      <3>1. L!QuotasOf(a) = quotas[x] /\ L!QuotasOf(a)' = quotas'[y]
        BY <2>0, <2>7, LimitUserScope, LimitUserScopeAfter
      <3>2. x \in L!Scopes /\ (x # L!Default => x \in Roles) /\ ownList \subseteq Roles /\ L!Default \notin Roles
        BY LimitConsts DEF LimitInv, RolesThere
      <3>3. CASE c.scope = y
        <4>1. quotas[x] = (IF c.scope \in Roles THEN L!QuotasIn(c.scope, ownList) ELSE quotas[c.scope])
          BY <2>0, <3>2, <3>3 DEF L!QuotasIn
        <4> QED BY <2>3, <2>4, <3>1, <3>3, <4>1 DEF QuotasKept
      <3>4. CASE c.scope # y
        <4>1. x = y
          BY <2>0, <3>2, <3>4
        <4> HIDE DEF x, y
        <4> QED BY <2>4, <2>5, <3>1, <3>2, <3>4, <4>1 DEF QuotasKept
      <3> QED BY <3>3, <3>4
    <2> QED BY <1>a, <2>1, <2>6, <2>7
  <1>3. CASE c.does = "own" /\ L!SetOwn(c)
    <2>0. ownList' = L!OwnAfter(c) /\ UNCHANGED <<exists, rows, quotas, role, settings>> /\ c.scope \in Roles
      BY <1>3 DEF L!SetOwn, Asked
    <2>1. NoLooser(a)
      <3>1. L!ScopeOf(a)' = L!ScopeOf(a)
        BY <2>0 DEF L!ScopeOf
      <3> QED BY <1>s, <2>0, <3>1, SameNoLooser
    <2>2. L!WeakenedQuotas(L!QuotasIn(c.scope, ownList), L!QuotasIn(c.scope, L!OwnAfter(c))) = {}
      BY <1>3 DEF L!Weak
    <2>3. \A q \in L!QuotasIn(c.scope, ownList) : \E n \in L!QuotasIn(c.scope, L!OwnAfter(c)) : L!Keeps(n, q)
      BY <2>2, QuotasNotWeakened
    <2>4. CASE a = L!Public
      BY <2>0, <2>1, <2>4, LimitUserScope, LimitUserScopeAfter, QuotasSame
    <2>5. CASE a = L!User /\ role # c.scope
      <3>1. role \in ownList <=> role \in ownList'
        BY <2>0, <2>5 DEF L!OwnAfter
      <3> QED BY <2>0, <2>1, <2>5, <3>1, LimitUserScope, LimitUserScopeAfter, QuotasSame
    <2>6. CASE a = L!User /\ role = c.scope
      <3>1. L!QuotasOf(a) = L!QuotasIn(c.scope, ownList) /\ L!QuotasOf(a)' = L!QuotasIn(c.scope, L!OwnAfter(c))
        BY <2>0, <2>6, LimitUserScope, LimitUserScopeAfter DEF L!QuotasIn
      <3> QED BY <2>1, <2>3, <3>1 DEF QuotasKept
    <2> QED BY <1>a, <2>4, <2>5, <2>6
  <1>4. CASE c.does = "delete" /\ L!DeleteRole(c)
    <2> DEFINE d == c.scope
    <2>0. /\ exists' = exists \ {d} /\ ownList' = ownList \ {d} /\ role' = (IF role = d THEN None ELSE role)
          /\ rows' = [rows EXCEPT ![d] = [ch \in L!Channels |-> L!NoRows]] /\ quotas' = [quotas EXCEPT ![d] = {}] /\ settings' = settings
      BY <1>4 DEF L!DeleteRole
    <2>1. d \in exists /\ d \in Roles /\ d # L!Default /\ d # L!Public /\ d \in L!Scopes /\ d # None
      BY <1>4, LimitConsts DEF L!May, L!There, Asked
    <2> HIDE DEF d
    <2>2. \A x \in L!Scopes : x # d => rows'[x] = rows[x] /\ quotas'[x] = quotas[x]
      BY <1>0, <2>0
    <2>3. CASE a = L!Public
      BY <1>0, <1>s, <2>0, <2>1, <2>2, <2>3, LimitUserScope, LimitUserScopeAfter, QuotasSame, SameNoLooser
    <2>4. CASE a = L!User /\ role # d
      <3>1. role' = role /\ (role \in ownList' <=> role \in ownList) /\ (role # None => role \in L!Scopes)
        BY <2>0, <2>4, LimitConsts DEF LimitInv, RolesThere
      <3>2. L!ScopeOf(a)' = L!ScopeOf(a) /\ L!ScopeOf(a) # d /\ L!ScopeOf(a) \in L!Scopes
        BY <1>0, <2>1, <2>4, <3>1, LimitUserScope, LimitUserScopeAfter
      <3>3. NoLooser(a)
        BY <1>0, <1>s, <2>0, <2>1, <2>2, <3>2, SameNoLooser
      <3>4. L!QuotasOf(a)' = L!QuotasOf(a)
        BY <1>0, <2>1, <2>2, <2>4, <3>1, LimitUserScope, LimitUserScopeAfter
      <3> QED BY <3>3, <3>4, QuotasSame
    <2>5. CASE a = L!User /\ role = d
      <3>1. L!ScopeOf(a) = d /\ L!ScopeOf(a)' = L!Default
        BY <2>0, <2>1, <2>5, LimitUserScope, LimitUserScopeAfter
      <3>2. L!RoleChangeWeakens(d, L!Default) = {}
        BY <1>4, <2>5 DEF L!Weak, d
      <3>3. /\ \A o \in L!Options : L!Val(o, AllOf(rows, L!Default, o)) <= L!Val(o, AllOf(rows, d, o))
            /\ \A o \in L!ApiOptions : ApiOf(rows, L!Default, o) <= ApiOf(rows, d, o)
            /\ L!WeakenedQuotas(L!QuotasIn(d, ownList), L!QuotasIn(L!Default, ownList)) = {}
        BY <1>0, <2>1, <3>2, RoleTight
      <3>4. rows'[L!Default] = rows[L!Default] /\ quotas'[L!Default] = quotas[L!Default]
        BY <1>0, <2>1, <2>2
      <3>5. \A o : AllOf(rows', L!Default, o) = AllOf(rows, L!Default, o) /\ ApiOf(rows', L!Default, o) = ApiOf(rows, L!Default, o)
        BY <3>4 DEF AllOf, ApiOf
      <3>6. NoLooser(a)
        <4>1. \A o \in L!Options : L!Val(o, AllOf(rows', L!Default, o)) <= L!Val(o, AllOf(rows, d, o))
          BY <3>3, <3>5
        <4>2. \A o \in L!ApiOptions : ApiOf(rows', L!Default, o) <= ApiOf(rows, d, o)
          BY <3>3, <3>5
        <4>3. UNCHANGED settings /\ d = L!ScopeOf(a) /\ L!Default = L!ScopeOf(a)'
          BY <2>0, <3>1
        <4> QED BY <4>1, <4>2, <4>3, TightNoLooser
      <3>7. L!QuotasIn(L!Default, ownList) = quotas[L!Default] /\ L!QuotasOf(a) = L!QuotasIn(d, ownList) /\ L!QuotasOf(a)' = quotas'[L!Default]
        BY <2>0, <2>1, <2>5, LimitUserScope, LimitUserScopeAfter DEF L!QuotasIn
      <3>8. QuotasKept(a)
        BY <3>3, <3>4, <3>7, QuotasNotWeakened DEF QuotasKept
      <3> QED BY <3>6, <3>8
    <2> QED BY <1>a, <2>3, <2>4, <2>5
  <1>5. CASE c.does = "assign" /\ L!SetUserRole(c)
    <2>0. role' = c.role /\ UNCHANGED <<exists, rows, quotas, ownList, settings>> /\ (c.role = None \/ c.role \in exists)
      BY <1>5 DEF L!SetUserRole, L!May
    <2>1. CASE a = L!Public
      BY <1>s, <2>0, <2>1, LimitUserScope, LimitUserScopeAfter, QuotasSame, SameNoLooser
    <2>2. CASE a = L!User
      <3> DEFINE t == IF c.role = None THEN L!Default ELSE c.role
      <3>1. s = L!ScopeOf(a) /\ t = L!ScopeOf(a)' /\ s \in L!Scopes /\ t \in L!Scopes
        <4>1. t = L!ScopeOf(a)'
          BY <2>0, <2>2, LimitUserScopeAfter
        <4>2. t \in L!Scopes
          BY <2>0, LimitConsts DEF LimitInv, RolesThere
        <4> QED BY <4>1, <4>2, LimitScopes DEF LimitInv
      <3>2. L!RoleChangeWeakens(s, t) = {}
        BY <1>5, <2>2 DEF L!Weak
      <3>q. L!QuotasOf(a) = L!QuotasIn(s, ownList) /\ L!QuotasOf(a)' = L!QuotasIn(t, ownList)
        BY <2>0, <2>2, LimitUserScope, LimitUserScopeAfter DEF L!QuotasIn
      <3> HIDE DEF s, t
      <3>3. /\ \A o \in L!Options : L!Val(o, AllOf(rows, t, o)) <= L!Val(o, AllOf(rows, s, o))
            /\ \A o \in L!ApiOptions : ApiOf(rows, t, o) <= ApiOf(rows, s, o)
            /\ s # t => L!WeakenedQuotas(L!QuotasIn(s, ownList), L!QuotasIn(t, ownList)) = {}
        BY <3>1, <3>2, RoleTight
      <3>4. NoLooser(a)
        BY <2>0, <3>1, <3>3, TightNoLooser
      <3>5. CASE s = t
        BY <3>4, <3>5, <3>q, QuotasSame
      <3>6. CASE s # t
        BY <3>3, <3>4, <3>6, <3>q, QuotasNotWeakened DEF QuotasKept
      <3> QED BY <3>5, <3>6
    <2> QED BY <1>a, <2>1, <2>2
  <1>6. CASE c.does = "settings" /\ L!SetSettings(c)
    <2>0. settings' = [settings EXCEPT ![c.key] = c.value] /\ UNCHANGED <<exists, rows, quotas, ownList, role>>
      BY <1>6 DEF L!SetSettings
    <2>1. ~(c.value > settings[c.key]) /\ c.key \in {"idle", "grant"} /\ c.value \in {1, 2}
      BY <1>6 DEF L!Weak, Asked
    <2>2. \A k \in {"idle", "grant"} : settings'[k] <= settings[k]
      BY <1>0, <2>0, <2>1
    <2>3. L!ScopeOf(a)' = L!ScopeOf(a) /\ L!QuotasOf(a)' = L!QuotasOf(a)
      BY <2>0 DEF L!ScopeOf, L!QuotasOf, L!QuotasIn, L!ScopeIn
    <2> QED BY <2>0, <2>2, <2>3, SameNoLooser, QuotasSame
  <1> QED BY <1>1, <1>2, <1>3, <1>4, <1>5, <1>6 DEF L!Write

LEMMA LimitTight ==
    ASSUME LimitInv, LimitInv', L!Next
    PROVE  L!LoosenedByConfirmation /\ L!QuotasByConfirmation
  <1> SUFFICES ASSUME L!WithoutConfirmation, NEW a \in {L!User, L!Public}
               PROVE  NoLooser(a) /\ QuotasKept(a)
    BY DEF L!LoosenedByConfirmation, L!QuotasByConfirmation, NoLooser, QuotasKept
  <1>0. PICK t \in Tabs :
        \/ \E c \in {d \in L!Changes : d.does \in plan.does} : L!Change(t, c) \/ L!Ask(t, c)
        \/ L!Confirmed(t) \/ L!Refused(t)
        \/ \E r \in Roles, from \in L!Scopes \cup {None} : "create" \in plan.does /\ L!CreateRole(t, r, from)
    BY DEF L!Next
  <1>1. ASSUME NEW c \in L!Changes, c.does \in plan.does, L!Change(t, c) PROVE NoLooser(a) /\ QuotasKept(a)
    BY <1>1, LimitChanges, ChangeTight DEF L!Change
  <1>k. ASSUME UNCHANGED <<exists, rows, quotas, ownList, role, settings>> PROVE NoLooser(a) /\ QuotasKept(a)
    <2>1. L!ScopeOf(a)' = L!ScopeOf(a) /\ L!QuotasOf(a)' = L!QuotasOf(a)
      BY <1>k DEF L!ScopeOf, L!QuotasOf, L!QuotasIn, L!ScopeIn
    <2>2. \A k \in {"idle", "grant"} : settings'[k] <= settings[k]
      BY <1>k DEF LimitInv
    <2> QED BY <1>k, <2>1, <2>2, SameNoLooser, QuotasSame
  <1>2. ASSUME NEW c \in L!Changes, L!Ask(t, c) PROVE NoLooser(a) /\ QuotasKept(a)
    BY <1>2, <1>k DEF L!Ask
  <1>3. ~L!Confirmed(t)
    BY DEF L!WithoutConfirmation
  <1>4. CASE L!Refused(t)
    BY <1>4, <1>k DEF L!Refused
  <1>5. ASSUME NEW r \in Roles, NEW from \in L!Scopes \cup {None}, L!CreateRole(t, r, from) PROVE NoLooser(a) /\ QuotasKept(a)
    <2>1. /\ r \notin exists /\ exists' = exists \cup {r} /\ UNCHANGED <<plan, role, settings, asking>>
          /\ \A x \in L!Scopes : x # r => rows'[x] = rows[x] /\ quotas'[x] = quotas[x]
          /\ ownList \subseteq ownList' /\ ownList' \subseteq ownList \cup {r}
      BY <1>5 DEF L!CreateRole, LimitInv, LimitRows, Lists
    <2>2. /\ L!Default # r /\ L!Public # r /\ None # r /\ L!Default \in L!Scopes /\ L!Public \in L!Scopes /\ role # r
          /\ (role # None => role \in L!Scopes)
      BY <2>1, LimitConsts DEF LimitInv, RolesThere
    <2>3. L!ScopeOf(a)' = L!ScopeOf(a) /\ L!ScopeOf(a) # r /\ L!ScopeOf(a) \in L!Scopes
      BY <2>1, <2>2, LimitUserScope, LimitUserScopeAfter
    <2>4. \A k \in {"idle", "grant"} : settings'[k] <= settings[k]
      BY <2>1 DEF LimitInv
    <2>5. NoLooser(a)
      BY <2>1, <2>2, <2>3, <2>4, SameNoLooser
    <2>6. role \in ownList <=> role \in ownList'
      BY <2>1, <2>2
    <2>7. L!QuotasOf(a)' = L!QuotasOf(a)
      BY <2>1, <2>2, <2>6, LimitUserScope, LimitUserScopeAfter
    <2> QED BY <2>5, <2>7, QuotasSame
  <1> QED BY <1>0, <1>1, <1>2, <1>3, <1>4, <1>5

\* Whatever the rows, lists and roles an owner has and however changes and their confirmations interleave: an
\* API key makes nothing its account could not, and only a change that was confirmed gives an account more, or
\* lets go of a quota that counts it (setLimits, setQuotas, setOwnQuotas, deleteRole, updateUser in
\* src/src/directory-do.js, weakened in src/src/lib/settings.js).
THEOREM DirectoryLimitsSafe == Spec => LimitsSafe
  <1> DEFINE Good == part = "limits" => LimitInv
             Steps == part = "limits" => L!LoosenedByConfirmation /\ L!QuotasByConfirmation
  <1>1. Init => Good
    BY LimitInit DEF Init, InitShare, InitSignIn, InitSession, InitLimits, InitImport, InitPage
  <1>2. ASSUME Good, [Next]_vars PROVE Good' /\ [Steps]_vars
    <2>1. CASE InLimits(L!Next)
      BY <1>2, <2>1, LimitStep, LimitTight DEF InLimits
    <2>2. CASE InShare(S!Next) \/ InSignIn(A!Next) \/ InSession(C!Next) \/ InImport(I!Next) \/ InPage(P!Next)
      BY <2>2 DEF InShare, InSignIn, InSession, InImport, InPage
    <2>3. CASE UNCHANGED vars
      <3>1. UNCHANGED <<part, plan, exists, rows, quotas, ownList, role, settings, asking>>
        BY <2>3 DEF vars
      <3> QED BY <1>2, <2>3, <3>1
              DEF LimitInv, LimitRows, RowsOf, Lists, RolesThere, Asked, NotAllDefaults, L!OptionsOf
    <2> QED BY <1>2, <2>1, <2>2, <2>3 DEF Next
  <1>3. Good => (part = "limits" => L!TypeOK /\ L!KeysOnlyNarrow)
    BY LimitTypes, LimitNarrow
  <1>4. Good /\ [Next]_vars => [Steps]_vars
    BY <1>2
  <1> QED BY <1>1, <1>2, <1>3, <1>4, PTL DEF Spec, LimitsSafe

-----------------------------------------------------------------------------
(***************************************************************************)
(* Sessions and their cookies                                              *)
(***************************************************************************)
\* From then on a cookie is refused for its age; timeouts that only get shorter never move it up.
Cut(c) == C!Min2(c.exp, c.iat + C!TimeoutsOf(c).abs)

\* What a cookie says and what there is on record of its session.
Cookies ==
    \A c \in cookies : /\ c.lat <= now /\ c.lat <= seen[c.sid] /\ seen[c.sid] <= now
                       /\ born[c.sid] <= c.iat /\ c.exp <= born[c.sid] + C!LongestAbs
                       /\ c.ver <= ver[C!Holder(c)]
\* The cookies of one session are of one account and version, and each lasts as long as any other may still be used.
Twins ==
    \A c, d \in cookies : c.sid = d.sid => /\ c.uid = d.uid /\ c.act = d.act /\ c.ver = d.ver /\ c.iat = d.iat
                                           /\ Cut(c) <= d.exp
\* The last use of a session is at most a slide after its newest cookie.
LastUse == \A c \in cookies : \E d \in cookies : d.sid = c.sid /\ seen[c.sid] < d.lat + Slide
\* Requests have a cookie that was made, are authenticated within the second, and go by a version there was.
Underway ==
    \A r \in SessionRequests : req[r] # None =>
        /\ req[r].c \in cookies
        /\ req[r].at = "opened" => req[r].t = now
        /\ req[r].at = "changing" => req[r].base <= ver[req[r].c.uid]
\* A cookie of a session that ended is of an older version, or revoked for as long as it could be used, or too old.
Dead(c) == \/ c.ver < ver[C!Holder(c)]
           \/ revoked[c.sid] # None /\ Cut(c) <= revoked[c.sid]
           \/ Cut(c) < now
Ended ==
    /\ \A s \in ended : \E c \in cookies : c.sid = s
    /\ \A s \in Sids : revoked[s] # None => s \in ended
    /\ \A c \in cookies : c.sid \in ended => Dead(c)

SessionDomains ==
    /\ plan \in C!Plan /\ DOMAIN revoked = Sids /\ DOMAIN req = SessionRequests
    /\ born \in [Sids -> C!Times] /\ seen \in [Sids -> C!Times] /\ ended \subseteq Sids
SessionInv == C!TypeOK /\ SessionDomains /\ Cookies /\ Twins /\ LastUse /\ Underway /\ Ended

\* The constants.
LEMMA SessionConsts ==
    /\ Slide \in Nat /\ Slide > 0 /\ SessionTime \in Nat /\ C!Times \subseteq Nat /\ Owner # SessionUser
    /\ None \notin Nat /\ None \notin C!Claims /\ None # Owner /\ None # SessionUser
    /\ \A t \in Timeouts : t.idle \in Nat /\ t.abs \in Nat /\ t.idle > 0 /\ t.abs > 0
  BY DirectoryAssumption DEF DirectoryAssumption, C!SessionsAssumption, C!Times

LEMMA Longest ==
    /\ C!LongestIdle \in Nat /\ C!LongestAbs \in Nat
    /\ \A t \in Timeouts : t.idle <= C!LongestIdle /\ t.abs <= C!LongestAbs
  <1>1. PICK i \in Timeouts : \A d \in Timeouts : d.idle <= i.idle
    BY DirectoryAssumption DEF DirectoryAssumption, C!SessionsAssumption
  <1>2. PICK a \in Timeouts : \A d \in Timeouts : d.abs <= a.abs
    BY DirectoryAssumption DEF DirectoryAssumption, C!SessionsAssumption
  <1>3. C!LongestIdle \in {t.idle : t \in Timeouts} /\ \A t \in Timeouts : t.idle <= C!LongestIdle
    BY <1>1 DEF C!LongestIdle
  <1>4. C!LongestAbs \in {t.abs : t \in Timeouts} /\ \A t \in Timeouts : t.abs <= C!LongestAbs
    BY <1>2 DEF C!LongestAbs
  <1> QED BY <1>3, <1>4, SessionConsts

\* The fields of a cookie, and back.
LEMMA ClaimFields ==
    ASSUME NEW c
    PROVE  c \in C!Claims =>
             /\ c.sid \in Sids /\ c.uid \in {Owner, SessionUser} /\ c.act \in {Owner, None} /\ c.ver \in Nat
             /\ c.iat \in Nat /\ c.iat <= SessionTime /\ c.lat \in Nat /\ c.lat <= SessionTime /\ c.exp \in Nat
             /\ C!Holder(c) \in {Owner, SessionUser}
  BY SessionConsts DEF C!Claims, C!Accounts, C!Times, C!Holder

LEMMA SessionInit == C!Init => SessionInv
  <1> SUFFICES ASSUME C!Init PROVE SessionInv
    OBVIOUS
  <1>1. plan \in C!Plan
    BY DirectoryAssumption DEF C!Init, DirectoryAssumption, C!PlansAssumption
  <1>2. PICK t \in Timeouts : conf = [a \in C!Accounts |-> t] /\ cached = conf[Owner]
    BY DEF C!Init
  <1>3. conf \in [C!Accounts -> Timeouts] /\ cached \in Timeouts
    BY <1>2 DEF C!Accounts
  <1>4. 0 \in C!Times
    BY SessionConsts DEF C!Times
  <1>5. C!TypeOK
    BY <1>3, <1>4 DEF C!Init, C!TypeOK
  <1>6. SessionDomains
    BY <1>1, <1>4 DEF C!Init, SessionDomains
  <1> QED BY <1>5, <1>6 DEF C!Init, SessionInv, Cookies, Twins, LastUse, Underway, Ended

LEMMA TimeoutsTyped ==
    ASSUME C!TypeOK, NEW c \in C!Claims
    PROVE  /\ C!TimeoutsOf(c) \in Timeouts /\ C!TimeoutsOf(c).idle \in Nat /\ C!TimeoutsOf(c).abs \in Nat
           /\ Cut(c) \in Nat /\ Cut(c) <= c.exp /\ Cut(c) <= c.iat + C!TimeoutsOf(c).abs
           /\ Cut(c) = c.exp \/ Cut(c) = c.iat + C!TimeoutsOf(c).abs
  <1>1. C!TimeoutsOf(c) \in Timeouts
    BY ClaimFields DEF C!TypeOK, C!TimeoutsOf, C!Accounts
  <1>2. C!TimeoutsOf(c).idle \in Nat /\ C!TimeoutsOf(c).abs \in Nat
    BY <1>1, SessionConsts
  <1> QED BY <1>1, <1>2, ClaimFields DEF Cut, C!Min2

\* A new session: what its first cookie says.
LEMMA Issued ==
    ASSUME SessionInv, NEW s \in Sids, NEW uid \in {Owner, SessionUser}, NEW act \in {Owner, None}, NEW v \in Nat, NEW t \in Timeouts,
           NEW from \in cookies \cup {None}, C!IssueSession(s, uid, act, v, t, from)
    PROVE  \E x \in C!Claims, b \in C!Times :
             /\ cookies' = cookies \cup {x} /\ \A c \in cookies : c.sid # s
             /\ x.sid = s /\ x.uid = uid /\ x.act = act /\ x.ver = v /\ x.iat <= now /\ x.lat = now /\ x.exp > x.iat
             /\ born' = [born EXCEPT ![s] = b] /\ b <= x.iat /\ x.exp <= b + C!LongestAbs
             /\ seen' = [seen EXCEPT ![s] = now]
  <1> DEFINE i == C!IatOf(from)
             e == C!ExpOf(from, t)
             x == [sid |-> s, uid |-> uid, act |-> act, ver |-> v, iat |-> i, lat |-> now, exp |-> e]
             b == IF from = None THEN now ELSE born[from.sid]
  <1>0. now \in C!Times /\ now \in Nat /\ now <= SessionTime /\ t.abs \in Nat /\ t.abs > 0 /\ t.abs <= C!LongestAbs /\ C!LongestAbs \in Nat
    BY SessionConsts, Longest DEF SessionInv, C!TypeOK, C!Times
  <1>1. i \in C!Times /\ i <= now /\ e \in Nat /\ e > i /\ b \in C!Times /\ b <= i /\ e <= b + C!LongestAbs
    <2>1. CASE from = None
      BY <1>0, <2>1 DEF C!IatOf, C!ExpOf, C!Times
    <2>2. CASE from # None
      <3>1. from \in cookies /\ from \in C!Claims /\ from.exp > from.iat /\ from.lat >= from.iat
        BY <2>2 DEF SessionInv, C!TypeOK
      <3>2. /\ from.iat \in Nat /\ from.lat \in Nat /\ from.exp \in Nat /\ from.lat <= now /\ from.iat <= now
            /\ born[from.sid] <= from.iat /\ from.exp <= born[from.sid] + C!LongestAbs /\ born[from.sid] \in C!Times /\ born[from.sid] \in Nat
        BY <1>0, <3>1, ClaimFields DEF SessionInv, Cookies, SessionDomains, C!Times
      <3>3. i = from.iat /\ b = born[from.sid] /\ e = C!Min2(from.iat + t.abs, from.exp)
        BY <2>2 DEF C!IatOf, C!ExpOf
      <3>4. e \in Nat /\ e > from.iat /\ e <= from.exp
        BY <1>0, <3>1, <3>2, <3>3 DEF C!Min2
      <3>5. i \in C!Times /\ b \in C!Times /\ b \in Nat
        BY <1>0, <3>2, <3>3, SessionConsts DEF C!Times
      <3> HIDE DEF i, b, e
      <3> QED BY <1>0, <3>2, <3>3, <3>4, <3>5
    <2> QED BY <2>1, <2>2
  <1> HIDE DEF i, e, b
  <1>2. x \in C!Claims
    BY <1>0, <1>1 DEF C!Claims, C!Accounts
  <1>3. cookies' = cookies \cup {x} /\ born' = [born EXCEPT ![s] = b] /\ seen' = [seen EXCEPT ![s] = now] /\ \A c \in cookies : c.sid # s
    BY DEF C!IssueSession, C!Made, i, e, b
  <1>4. x.sid = s /\ x.uid = uid /\ x.act = act /\ x.ver = v /\ x.iat = i /\ x.lat = now /\ x.exp = e
    OBVIOUS
  <1> HIDE DEF x
  <1> QED BY <1>1, <1>2, <1>3, <1>4

\* What a new session leaves in order, in a step that takes no version back.
LEMMA IssuedKept ==
    ASSUME SessionInv, NEW s \in Sids, NEW uid \in {Owner, SessionUser}, NEW act \in {Owner, None}, NEW v \in Nat, NEW t \in Timeouts,
           NEW from \in cookies \cup {None}, C!IssueSession(s, uid, act, v, t, from),
           UNCHANGED <<now, conf>>, ver' \in [C!Accounts -> Nat], \A a \in C!Accounts : ver[a] <= ver'[a],
           v <= ver'[IF act = None THEN uid ELSE act]
    PROVE  /\ cookies' \subseteq C!Claims /\ \A c \in cookies' : c.lat >= c.iat /\ c.exp > c.iat
           /\ born' \in [Sids -> C!Times] /\ seen' \in [Sids -> C!Times]
           /\ Cookies' /\ Twins' /\ LastUse'
           /\ cookies \subseteq cookies' /\ \A c \in cookies' : c \in cookies \/ c.sid = s
           /\ \A c \in cookies : c.sid # s
  <1>1. PICK x \in C!Claims, b \in C!Times :
             /\ cookies' = cookies \cup {x} /\ \A c \in cookies : c.sid # s
             /\ x.sid = s /\ x.uid = uid /\ x.act = act /\ x.ver = v /\ x.iat <= now /\ x.lat = now /\ x.exp > x.iat
             /\ born' = [born EXCEPT ![s] = b] /\ b <= x.iat /\ x.exp <= b + C!LongestAbs
             /\ seen' = [seen EXCEPT ![s] = now]
    BY Issued
  <1>2. cookies \subseteq C!Claims /\ now \in C!Times /\ now \in Nat /\ (\A c \in cookies : c.lat >= c.iat /\ c.exp > c.iat)
    BY SessionConsts DEF SessionInv, C!TypeOK
  <1>3. born \in [Sids -> C!Times] /\ seen \in [Sids -> C!Times]
    BY DEF SessionInv, SessionDomains
  <1>4. cookies' \subseteq C!Claims /\ \A c \in cookies' : c.lat >= c.iat /\ c.exp > c.iat
    BY <1>1, <1>2
  <1>5. born' \in [Sids -> C!Times] /\ seen' \in [Sids -> C!Times] /\ born'[s] = b /\ seen'[s] = now
    BY <1>1, <1>2, <1>3
  <1>6. \A c \in cookies : c.sid \in Sids /\ c.sid # s /\ born'[c.sid] = born[c.sid] /\ seen'[c.sid] = seen[c.sid]
    BY <1>1, <1>2, <1>3, ClaimFields
  <1>7. \A c : Cut(c)' = Cut(c)
    BY DEF Cut, C!TimeoutsOf
  <1>8. Cookies'
    <2>1. ASSUME NEW c \in cookies PROVE c.ver <= ver'[C!Holder(c)]
      <3>1. c.ver <= ver[C!Holder(c)] /\ C!Holder(c) \in C!Accounts /\ c.ver \in Nat
        BY <1>2, ClaimFields DEF SessionInv, Cookies, C!Accounts
      <3>2. ver[C!Holder(c)] \in Nat /\ ver'[C!Holder(c)] \in Nat /\ ver[C!Holder(c)] <= ver'[C!Holder(c)]
        BY <3>1 DEF SessionInv, C!TypeOK
      <3> QED BY <3>1, <3>2
    <2>2. C!Holder(x) = IF act = None THEN uid ELSE act
      BY <1>1 DEF C!Holder
    <2> QED BY <1>1, <1>2, <1>5, <1>6, <2>1, <2>2 DEF SessionInv, Cookies
  <1>9. Twins'
    <2>1. Cut(x) <= x.exp
      BY TimeoutsTyped DEF SessionInv
    <2> QED BY <1>1, <1>6, <1>7, <2>1 DEF SessionInv, Twins
  <1>10. LastUse'
    <2>1. ASSUME NEW c \in cookies PROVE \E d \in cookies' : d.sid = c.sid /\ seen'[c.sid] < d.lat + Slide
      BY <1>1, <1>6 DEF SessionInv, LastUse
    <2>2. seen'[x.sid] < x.lat + Slide
      BY <1>1, <1>2, <1>5, SessionConsts
    <2> QED BY <1>1, <2>1, <2>2 DEF LastUse
  <1> QED BY <1>1, <1>4, <1>5, <1>8, <1>9, <1>10

\* A dead cookie stays dead.
LEMMA DeadKept ==
    ASSUME C!TypeOK, NEW c \in C!Claims, Dead(c), now' \in Nat, now <= now', ver' \in [C!Accounts -> Nat], \A a \in C!Accounts : ver[a] <= ver'[a],
           Cut(c)' \in Int, Cut(c)' <= Cut(c),
           \/ revoked'[c.sid] = revoked[c.sid]
           \/ revoked'[c.sid] \in Nat /\ Cut(c)' <= revoked'[c.sid]
           \/ revoked[c.sid] # None => revoked[c.sid] < now'
    PROVE  Dead(c)'
  <1>1. c.ver \in Nat /\ C!Holder(c) \in C!Accounts /\ c.sid \in Sids /\ C!Holder(c)' = C!Holder(c)
    BY ClaimFields DEF C!Accounts, C!Holder
  <1>2. ver[C!Holder(c)] \in Nat /\ ver'[C!Holder(c)] \in Nat /\ ver[C!Holder(c)] <= ver'[C!Holder(c)] /\ now \in Nat
    BY <1>1, SessionConsts DEF C!TypeOK
  <1>3. (revoked[c.sid] # None => revoked[c.sid] \in Nat) /\ Cut(c) \in Nat
    BY <1>1, TimeoutsTyped DEF C!TypeOK
  <1> DEFINE cut == Cut(c)
             cut2 == Cut(c)'
             h == C!Holder(c)
  <1>4. Dead(c)' <=> (c.ver < ver'[h] \/ (revoked'[c.sid] # None /\ cut2 <= revoked'[c.sid]) \/ cut2 < now')
    BY <1>1 DEF Dead
  <1>5. c.ver < ver[h] \/ (revoked[c.sid] # None /\ cut <= revoked[c.sid]) \/ cut < now
    BY DEF Dead
  <1>6. cut \in Nat /\ cut2 \in Int /\ cut2 <= cut
    BY <1>3
  <1> HIDE DEF cut, cut2, h
  <1>7. None \notin Nat
    BY SessionConsts
  <1>8. /\ c.ver \in Nat /\ ver[h] \in Nat /\ ver'[h] \in Nat /\ ver[h] <= ver'[h] /\ now \in Nat
        /\ (revoked[c.sid] # None => revoked[c.sid] \in Nat)
    BY <1>1, <1>2, <1>3 DEF h
  <1>9. \/ revoked'[c.sid] = revoked[c.sid]
        \/ revoked'[c.sid] \in Nat /\ cut2 <= revoked'[c.sid]
        \/ revoked[c.sid] # None => revoked[c.sid] < now'
    BY DEF cut2
  <1> QED BY <1>4, <1>5, <1>6, <1>7, <1>8, <1>9

\* Time passes, versions move on and timeouts get shorter, never the other way.
Onward ==
    /\ now' \in Nat /\ now <= now' /\ ver' \in [C!Accounts -> Nat] /\ \A a \in C!Accounts : ver[a] <= ver'[a]
    /\ \A c \in C!Claims : Cut(c)' \in Int /\ Cut(c)' <= Cut(c)
\* A cookie that was made may only be of a session that is new, or goes on.
MadeFor(gone) == cookies \subseteq cookies' /\ \A d \in cookies' \ cookies : d.sid \notin gone

LEMMA OnwardSame == ASSUME C!TypeOK, UNCHANGED conf, now' \in Nat, now <= now', ver' \in [C!Accounts -> Nat], \A a \in C!Accounts : ver[a] <= ver'[a]
                    PROVE  Onward
  <1>1. ASSUME NEW c \in C!Claims PROVE Cut(c)' \in Int /\ Cut(c)' <= Cut(c)
    <2>1. Cut(c)' = Cut(c)
      BY DEF Cut, C!TimeoutsOf
    <2> QED BY <2>1, TimeoutsTyped
  <1> QED BY <1>1 DEF Onward

LEMMA OnwardBumped ==
    ASSUME C!TypeOK, UNCHANGED <<conf, now>>, NEW a \in C!Accounts, ver' = [ver EXCEPT ![a] = @ + 1]
    PROVE  Onward /\ ver[a] < ver'[a]
  <1>1. ver \in [C!Accounts -> Nat] /\ now \in Nat
    BY SessionConsts DEF C!TypeOK
  <1>2. ver' \in [C!Accounts -> Nat] /\ (\A b \in C!Accounts : ver[b] <= ver'[b]) /\ ver[a] < ver'[a]
    BY <1>1
  <1> QED BY <1>1, <1>2, OnwardSame

LEMMA CookiesQuiet ==
    ASSUME SessionInv, Onward, UNCHANGED <<cookies, born, seen>>
    PROVE  Cookies' /\ Twins' /\ LastUse'
  <1>0. cookies \subseteq C!Claims /\ now \in Nat /\ seen \in [Sids -> C!Times] /\ born \in [Sids -> C!Times]
    BY SessionConsts DEF SessionInv, C!TypeOK, SessionDomains
  <1>1. ASSUME NEW c \in cookies
        PROVE  c.lat <= now' /\ seen[c.sid] <= now' /\ c.ver <= ver'[C!Holder(c)] 
    <2>1. c.ver \in Nat /\ C!Holder(c) \in C!Accounts /\ c.lat \in Nat /\ c.lat <= now /\ seen[c.sid] \in Nat /\ seen[c.sid] <= now
      BY <1>0, ClaimFields, SessionConsts DEF C!Accounts, SessionInv, Cookies
    <2>2. ver[C!Holder(c)] \in Nat /\ ver'[C!Holder(c)] \in Nat /\ ver[C!Holder(c)] <= ver'[C!Holder(c)] /\ c.ver <= ver[C!Holder(c)]
      BY <2>1 DEF Onward, SessionInv, C!TypeOK, Cookies
    <2> QED BY <1>0, <2>1, <2>2 DEF Onward
  <1>2. Cookies'
    <2>1. \A c : C!Holder(c)' = C!Holder(c)
      BY DEF C!Holder
    <2> QED BY <1>1, <2>1 DEF SessionInv, Cookies
  <1>3. Twins'
    <2>1. ASSUME NEW c \in cookies, NEW d \in cookies, c.sid = d.sid PROVE Cut(c)' <= d.exp
      <3>1. Cut(c)' \in Int /\ Cut(c)' <= Cut(c) /\ Cut(c) \in Nat /\ d.exp \in Nat /\ Cut(c) <= d.exp
        BY <1>0, <2>1, ClaimFields, TimeoutsTyped DEF Onward, SessionInv, Twins
      <3> QED BY <3>1
    <2> QED BY <2>1 DEF SessionInv, Twins
  <1>4. LastUse'
    BY DEF SessionInv, LastUse
  <1> QED BY <1>2, <1>3, <1>4

LEMMA EndedKept ==
    ASSUME SessionInv, Onward, MadeFor(ended'), 
           \A s \in ended' : s \in ended \/ \E c \in cookies : c.sid = s,
           \A s \in Sids : revoked'[s] # None => s \in ended',
           ended \subseteq ended',
           \A c \in cookies : c.sid \in ended =>
              \/ revoked'[c.sid] = revoked[c.sid]
              \/ revoked'[c.sid] \in Nat /\ Cut(c)' <= revoked'[c.sid]
              \/ revoked[c.sid] # None => revoked[c.sid] < now',
           \A c \in cookies : c.sid \in ended' \ ended => Dead(c)'
    PROVE  Ended'
  <1>1. \A s \in ended' : \E c \in cookies' : c.sid = s
    BY DEF SessionInv, Ended, MadeFor
  <1>2. ASSUME NEW c \in cookies', c.sid \in ended' PROVE Dead(c)'
    <2>1. c \in cookies /\ c \in C!Claims
      BY <1>2 DEF MadeFor, SessionInv, C!TypeOK
    <2>2. CASE c.sid \in ended
      <3>1. Dead(c) /\ C!TypeOK
        BY <2>1, <2>2 DEF SessionInv, Ended
      <3> QED BY <2>1, <2>2, <3>1, DeadKept DEF Onward
    <2>3. CASE c.sid \notin ended
      BY <1>2, <2>1, <2>3
    <2> QED BY <2>2, <2>3
  <1> QED BY <1>1, <1>2 DEF Ended

LEMMA EndedSame == ASSUME SessionInv, Onward, UNCHANGED <<revoked, ended>>, MadeFor(ended) PROVE Ended'
  <1>1. \A s \in Sids : revoked'[s] # None => s \in ended'
    BY DEF SessionInv, Ended
  <1>2. MadeFor(ended')
    BY DEF MadeFor
  <1> QED BY <1>1, <1>2, EndedKept

\* All sessions of an account end.
LEMMA EndedAll ==
    ASSUME SessionInv, UNCHANGED <<conf, now, revoked>>, NEW a \in C!Accounts, ver' = [ver EXCEPT ![a] = @ + 1], ended' = ended \cup C!SessionsOf(a),
           MadeFor(ended \cup C!Made)
    PROVE  Ended'
  <1>1. Onward /\ ver[a] < ver'[a]
    BY OnwardBumped DEF SessionInv
  <1>2. C!SessionsOf(a) \subseteq C!Made
    BY DEF C!SessionsOf, C!Made
  <1>3. MadeFor(ended')
    BY <1>2 DEF MadeFor
  <1>4. \A s \in ended' : s \in ended \/ \E c \in cookies : c.sid = s
    BY <1>2 DEF C!Made
  <1>5. \A s \in Sids : revoked'[s] # None => s \in ended'
    BY DEF SessionInv, Ended
  <1>6. ASSUME NEW c \in cookies, c.sid \in ended' \ ended PROVE Dead(c)'
    <2>1. PICK x \in cookies : C!Holder(x) = a /\ x.sid = c.sid
      BY <1>6 DEF C!SessionsOf
    <2>2. C!Holder(c) = a /\ C!Holder(c)' = C!Holder(c)
      BY <2>1 DEF SessionInv, Twins, C!Holder
    <2>3. c.ver \in Nat /\ c.ver <= ver[a] /\ ver[a] \in Nat /\ ver'[a] \in Nat
      BY <1>1, <2>2, ClaimFields DEF SessionInv, Cookies, C!TypeOK, Onward
    <2> QED BY <1>1, <2>2, <2>3 DEF Dead
  <1> QED BY <1>1, <1>3, <1>4, <1>5, <1>6, EndedKept

\* One session is revoked.
LEMMA EndedOne ==
    ASSUME SessionInv, UNCHANGED <<conf, now, ver>>, NEW x \in cookies, C!Revoke(x), ended' = ended \cup {x.sid}, MadeFor(ended \cup C!Made)
    PROVE  Ended'
  <1>0. /\ x \in C!Claims /\ cookies \subseteq C!Claims /\ now \in Nat /\ ver \in [C!Accounts -> Nat] /\ DOMAIN revoked = Sids
        /\ \A a \in C!Accounts : ver[a] \in Nat /\ ver[a] <= ver[a]
    BY SessionConsts DEF SessionInv, C!TypeOK, SessionDomains
  <1>1. Onward
    BY <1>0, OnwardSame DEF SessionInv
  <1>2. x.sid \in Sids /\ x.exp \in Nat
    BY <1>0, ClaimFields
  <1>3. revoked' = [revoked EXCEPT ![x.sid] = x.exp]
    BY DEF C!Revoke
  <1>4. MadeFor(ended')
    BY DEF MadeFor, C!Made
  <1>5. \A s \in Sids : revoked'[s] # None => s \in ended'
    BY <1>0, <1>3 DEF SessionInv, Ended
  <1>6. ASSUME NEW c \in cookies, c.sid = x.sid PROVE revoked'[c.sid] \in Nat /\ Cut(c)' <= revoked'[c.sid]
    <2>1. Cut(c) <= x.exp /\ Cut(c)' <= Cut(c) /\ Cut(c)' \in Int /\ Cut(c) \in Nat
      BY <1>0, <1>1, <1>6, TimeoutsTyped DEF SessionInv, Twins, Onward
    <2> QED BY <1>0, <1>2, <1>3, <1>6, <2>1
  <1>7. \A c \in cookies : c.sid # x.sid => revoked'[c.sid] = revoked[c.sid]
    BY <1>3
  <1>8. ASSUME NEW c \in cookies, c.sid \in ended' \ ended PROVE Dead(c)'
    <2>1. revoked'[c.sid] # None
      BY <1>6, <1>8, SessionConsts
    <2> QED BY <1>6, <1>8, <2>1 DEF Dead
  <1> QED BY <1>1, <1>4, <1>5, <1>6, <1>7, <1>8, EndedKept

LEMMA UnderwayKept ==
    ASSUME SessionInv, cookies \subseteq cookies', \A a \in C!Accounts : ver[a] <= ver'[a], ver' \in [C!Accounts -> Nat],
           now' = now \/ \A r \in SessionRequests : req[r] # None => req[r].at # "opened",
           \A r \in SessionRequests :
               \/ req'[r] = req[r] \/ req'[r] = None
               \/ /\ req'[r].c \in cookies' /\ (req'[r].at = "opened" => req'[r].t = now')
                  /\ (req'[r].at = "changing" => req'[r].base <= ver'[req'[r].c.uid])
    PROVE  Underway'
  <1> SUFFICES ASSUME NEW r \in SessionRequests, req'[r] # None
               PROVE  /\ req'[r].c \in cookies' /\ (req'[r].at = "opened" => req'[r].t = now')
                      /\ (req'[r].at = "changing" => req'[r].base <= ver'[req'[r].c.uid])
    BY DEF Underway
  <1>1. CASE req'[r] = req[r]
    <2>1. /\ req[r].c \in cookies /\ (req[r].at = "opened" => req[r].t = now) /\ (req[r].at = "changing" => req[r].base <= ver[req[r].c.uid])
          /\ req[r] \in C!Request
      BY <1>1 DEF SessionInv, Underway, C!TypeOK
    <2>2. req[r].base \in Nat /\ req[r].c.uid \in C!Accounts
      BY <2>1, ClaimFields DEF C!Request, C!Accounts
    <2>3. ver[req[r].c.uid] \in Nat /\ ver'[req[r].c.uid] \in Nat /\ ver[req[r].c.uid] <= ver'[req[r].c.uid]
      BY <2>2 DEF SessionInv, C!TypeOK
    <2> QED BY <1>1, <2>1, <2>2, <2>3
  <1> QED BY <1>1

\* The parts that only have types.
LEMMA SessionFacts ==
    ASSUME SessionInv
    PROVE  /\ now \in C!Times /\ now \in Nat /\ conf \in [C!Accounts -> Timeouts] /\ cached \in Timeouts /\ ver \in [C!Accounts -> Nat]
           /\ off \in BOOLEAN /\ cookies \subseteq C!Claims /\ (\A c \in cookies : c.lat >= c.iat /\ c.exp > c.iat)
           /\ (\A s \in Sids : revoked[s] # None => revoked[s] \in Nat)
           /\ (\A r \in SessionRequests : req[r] # None => req[r] \in C!Request)
           /\ DOMAIN revoked = Sids /\ DOMAIN req = SessionRequests
           /\ \A a \in C!Accounts : ver[a] \in Nat /\ ver[a] <= ver[a]
  BY SessionConsts DEF SessionInv, C!TypeOK, SessionDomains

\* A request a step is about.
LEMMA RequestOf ==
    ASSUME SessionInv, NEW r \in SessionRequests, req[r] # None
    PROVE  /\ req[r] \in C!Request /\ req[r].c \in cookies /\ req[r].c \in C!Claims /\ req[r].t \in C!Times
           /\ req[r].at \in {"opened", "signed in", "changing"} /\ req[r].base \in Nat
           /\ req[r].c.sid \in Sids /\ req[r].c.uid \in C!Accounts /\ req[r].c.act \in {Owner, None} /\ req[r].c.exp \in Nat
  <1>1. req[r] \in C!Request /\ req[r].c \in cookies /\ req[r].c \in C!Claims
    BY SessionFacts DEF SessionInv, Underway
  <1> QED BY <1>1, ClaimFields DEF C!Request, C!Accounts

LEMMA LoginStep == ASSUME SessionInv, NEW s \in Sids, NEW a \in C!Accounts, C!Login(s, a) PROVE SessionInv'
  <1>0. /\ C!IssueSession(s, a, None, ver[a], conf[a], None)
        /\ UNCHANGED <<plan, now, conf, cached, ver, off, revoked, req, ended>>
    BY DEF C!Login
  <1>1. /\ ver[a] \in Nat /\ conf[a] \in Timeouts /\ a \in {Owner, SessionUser} /\ None \in cookies \cup {None}
        /\ ver' \in [C!Accounts -> Nat] /\ (\A b \in C!Accounts : ver[b] <= ver'[b]) /\ ver[a] <= ver'[a]
    BY <1>0, SessionFacts DEF C!Accounts
  <1>2. /\ cookies' \subseteq C!Claims /\ \A c \in cookies' : c.lat >= c.iat /\ c.exp > c.iat
        /\ born' \in [Sids -> C!Times] /\ seen' \in [Sids -> C!Times]
        /\ Cookies' /\ Twins' /\ LastUse'
        /\ cookies \subseteq cookies' /\ \A c \in cookies' : c \in cookies \/ c.sid = s
        /\ \A c \in cookies : c.sid # s
    BY <1>0, <1>1, IssuedKept
  <1>3. C!TypeOK'
    BY <1>0, <1>2 DEF SessionInv, C!TypeOK
  <1>4. SessionDomains'
    BY <1>0, <1>2 DEF SessionInv, SessionDomains
  <1>5. Underway'
    BY <1>0, <1>1, <1>2, UnderwayKept
  <1>6. Onward
    BY <1>0, <1>1, OnwardSame, SessionFacts DEF SessionInv
  <1>7. MadeFor(ended)
    BY <1>2 DEF MadeFor, SessionInv, Ended
  <1>8. Ended'
    BY <1>0, <1>6, <1>7, EndedSame
  <1> QED BY <1>2, <1>3, <1>4, <1>5, <1>8 DEF SessionInv

\* Requests that come, are answered, or take their time; cookies stay as they are.
LEMMA PlainStep ==
    ASSUME SessionInv, UNCHANGED <<plan, now, conf, cached, off, cookies, born, seen>>, C!TypeOK', SessionDomains', Onward, Ended', Underway'
    PROVE  SessionInv'
  BY CookiesQuiet DEF SessionInv

LEMMA RequestStep ==
    ASSUME SessionInv, NEW r \in SessionRequests, NEW q \in C!Request \cup {None}, req' = [req EXCEPT ![r] = q],
           UNCHANGED <<plan, now, conf, cached, ver, off, revoked, cookies, born, ended, seen>>,
           q # None => /\ q.c \in cookies /\ (q.at = "opened" => q.t = now) /\ (q.at = "changing" => q.base <= ver[q.c.uid])
    PROVE  SessionInv'
  <1>1. \A x \in SessionRequests : req'[x] = IF x = r THEN q ELSE req[x]
    BY SessionFacts
  <1>2. C!TypeOK'
    BY <1>1 DEF SessionInv, C!TypeOK
  <1>3. SessionDomains'
    BY DEF SessionInv, SessionDomains
  <1>4. Onward
    BY OnwardSame, SessionFacts DEF SessionInv
  <1>5. MadeFor(ended)
    BY DEF MadeFor
  <1>6. Ended'
    BY <1>4, <1>5, EndedSame
  <1>7. Underway'
    BY <1>1, UnderwayKept, SessionFacts
  <1> QED BY <1>2, <1>3, <1>4, <1>6, <1>7, PlainStep

LEMMA OpenStep == ASSUME SessionInv, NEW r \in SessionRequests, NEW c \in cookies, C!Open(r, c) PROVE SessionInv'
  <1> DEFINE q == [c |-> c, t |-> now, at |-> "opened", base |-> 0]
  <1>1. req' = [req EXCEPT ![r] = q] /\ UNCHANGED <<plan, now, conf, cached, ver, off, revoked, cookies, left, born, ended, seen>>
    BY DEF C!Open
  <1>2. c \in C!Claims /\ now \in C!Times
    BY SessionFacts
  <1>3. q \in C!Request /\ q.c = c /\ q.at = "opened" /\ q.t = now
    BY <1>2 DEF C!Request
  <1> HIDE DEF q
  <1> QED BY <1>1, <1>3, RequestStep

LEMMA RefuseStep == ASSUME SessionInv, NEW r \in SessionRequests, C!Refuse(r) PROVE SessionInv'
  BY RequestStep DEF C!Refuse, C!Answered

LEMMA StartChangeStep == ASSUME SessionInv, NEW r \in SessionRequests, C!StartChange(r) PROVE SessionInv'
  <1> DEFINE q == [req[r] EXCEPT !.at = "changing", !.base = ver[req[r].c.uid]]
  <1>1. /\ req[r] # None /\ req' = [req EXCEPT ![r] = q]
        /\ UNCHANGED <<plan, now, conf, cached, ver, off, revoked, cookies, left, born, ended, seen>>
    BY DEF C!StartChange, C!SignedIn
  <1>2. req[r] \in C!Request /\ req[r].c \in cookies /\ ver[req[r].c.uid] \in Nat
    BY <1>1, RequestOf, SessionFacts
  <1>3. q \in C!Request /\ q.c = req[r].c /\ q.at = "changing" /\ q.base = ver[req[r].c.uid]
    BY <1>2 DEF C!Request
  <1> HIDE DEF q
  <1>4. q.c \in cookies /\ q.at # "opened" /\ q.base <= ver[q.c.uid] /\ q \in C!Request \cup {None}
    BY <1>2, <1>3
  <1> QED BY <1>1, <1>4, RequestStep

LEMMA LogoutStep == ASSUME SessionInv, NEW r \in SessionRequests, C!Logout(r) PROVE SessionInv'
  <1> DEFINE c == req[r].c
  <1>1. /\ req[r] # None /\ C!Revoke(c) /\ req' = [req EXCEPT ![r] = None] /\ ended' = ended \cup {c.sid}
        /\ UNCHANGED <<plan, now, conf, cached, ver, off, cookies, born, seen>>
    BY DEF C!Logout, C!SignedIn, C!Done, C!Answered
  <1>2. c \in cookies /\ c \in C!Claims /\ c.sid \in Sids /\ c.exp \in Nat
    BY <1>1, RequestOf
  <1> HIDE DEF c
  <1>3. revoked' = [revoked EXCEPT ![c.sid] = c.exp]
    BY <1>1 DEF C!Revoke
  <1>4. C!TypeOK'
    BY <1>1, <1>2, <1>3 DEF SessionInv, C!TypeOK, SessionDomains
  <1>5. SessionDomains'
    BY <1>1, <1>2, <1>3 DEF SessionInv, SessionDomains
  <1>6. Onward
    BY <1>1, OnwardSame, SessionFacts DEF SessionInv
  <1>7. MadeFor(ended \cup C!Made)
    BY <1>1 DEF MadeFor
  <1>8. Ended'
    BY <1>1, <1>2, <1>7, EndedOne
  <1>9. Underway'
    <2>1. \A x \in SessionRequests : req'[x] = req[x] \/ req'[x] = None
      BY <1>1, SessionFacts
    <2> QED BY <1>1, <2>1, UnderwayKept, SessionFacts
  <1> QED BY <1>1, <1>4, <1>5, <1>6, <1>8, <1>9, PlainStep

\* The session is replaced by another, of the owner's version.
LEMMA ReplaceStep ==
    ASSUME SessionInv, NEW r \in SessionRequests, NEW s \in Sids, NEW uid \in {Owner, SessionUser}, NEW act \in {Owner, None},
           (IF act = None THEN uid ELSE act) = Owner,
           req[r] # None, C!Revoke(req[r].c), req' = [req EXCEPT ![r] = None], ended' = ended \cup {req[r].c.sid},
           C!IssueSession(s, uid, act, ver[Owner], conf[Owner], req[r].c),
           UNCHANGED <<plan, now, conf, cached, ver, off>>
    PROVE  SessionInv'
  <1> DEFINE c == req[r].c
  <1>1. c \in cookies /\ c \in C!Claims /\ c.sid \in Sids /\ c.exp \in Nat
    BY RequestOf
  <1> HIDE DEF c
  <1>2. /\ ver[Owner] \in Nat /\ conf[Owner] \in Timeouts /\ ver' \in [C!Accounts -> Nat] /\ (\A b \in C!Accounts : ver[b] <= ver'[b])
        /\ ver[Owner] <= ver'[IF act = None THEN uid ELSE act]
    BY SessionFacts DEF C!Accounts
  <1>3. C!IssueSession(s, uid, act, ver[Owner], conf[Owner], c) /\ c \in cookies \cup {None}
    BY <1>1 DEF c
  <1>4. /\ cookies' \subseteq C!Claims /\ \A x \in cookies' : x.lat >= x.iat /\ x.exp > x.iat
        /\ born' \in [Sids -> C!Times] /\ seen' \in [Sids -> C!Times]
        /\ Cookies' /\ Twins' /\ LastUse'
        /\ cookies \subseteq cookies' /\ \A x \in cookies' : x \in cookies \/ x.sid = s
        /\ \A x \in cookies : x.sid # s
    BY <1>2, <1>3, IssuedKept
  <1>5. revoked' = [revoked EXCEPT ![c.sid] = c.exp] /\ C!Revoke(c) /\ ended' = ended \cup {c.sid}
    BY DEF C!Revoke, c
  <1>6. C!TypeOK'
    <2>1. \A x \in SessionRequests : req'[x] = req[x] \/ req'[x] = None
      BY SessionFacts
    <2> QED BY <1>1, <1>4, <1>5, <2>1 DEF SessionInv, C!TypeOK, SessionDomains
  <1>7. SessionDomains'
    BY <1>1, <1>4, <1>5 DEF SessionInv, SessionDomains
  <1>8. MadeFor(ended \cup C!Made)
    BY <1>4 DEF MadeFor, C!Made, SessionInv, Ended
  <1>9. Ended'
    BY <1>1, <1>5, <1>8, EndedOne
  <1>10. Underway'
    <2>1. \A x \in SessionRequests : req'[x] = req[x] \/ req'[x] = None
      BY SessionFacts
    <2> QED BY <1>2, <1>4, <2>1, UnderwayKept
  <1> QED BY <1>4, <1>6, <1>7, <1>9, <1>10 DEF SessionInv

LEMMA ImpersonateStep == ASSUME SessionInv, NEW r \in SessionRequests, NEW s \in Sids, C!Impersonate(r, s) PROVE SessionInv'
  <1>1. /\ req[r] # None /\ C!Revoke(req[r].c) /\ req' = [req EXCEPT ![r] = None] /\ ended' = ended \cup {req[r].c.sid}
        /\ C!IssueSession(s, SessionUser, Owner, ver[Owner], conf[Owner], req[r].c)
        /\ UNCHANGED <<plan, now, conf, cached, ver, off>>
    BY DEF C!Impersonate, C!SignedIn, C!Done, C!Answered
  <1> QED BY <1>1, ReplaceStep, SessionConsts

LEMMA EndImpersonationStep == ASSUME SessionInv, NEW r \in SessionRequests, NEW s \in Sids, C!EndImpersonation(r, s) PROVE SessionInv'
  <1>1. /\ req[r] # None /\ C!Revoke(req[r].c) /\ req' = [req EXCEPT ![r] = None] /\ ended' = ended \cup {req[r].c.sid}
        /\ C!IssueSession(s, Owner, None, ver[Owner], conf[Owner], req[r].c)
        /\ UNCHANGED <<plan, now, conf, cached, ver, off>>
    BY DEF C!EndImpersonation, C!SignedIn, C!Done, C!Answered
  <1> QED BY <1>1, ReplaceStep, SessionConsts

LEMMA ChangePasswordStep == ASSUME SessionInv, NEW r \in SessionRequests, NEW s \in Sids, C!ChangePassword(r, s) PROVE SessionInv'
  <1> DEFINE c == req[r].c
             a == c.uid
  <1>1. /\ req[r] # None /\ req[r].at = "changing" /\ req' = [req EXCEPT ![r] = None]
        /\ ver' = [ver EXCEPT ![a] = @ + 1] /\ ended' = ended \cup C!SessionsOf(a)
        /\ IF c.act = None THEN C!IssueSession(s, a, None, req[r].base + 1, cached, c) ELSE UNCHANGED <<cookies, born, seen>>
        /\ UNCHANGED <<plan, now, conf, cached, off, revoked>>
    BY DEF C!ChangePassword, C!EndAll, C!Done, C!Answered
  <1>2. c \in cookies /\ c \in C!Claims /\ a \in C!Accounts /\ req[r].base \in Nat /\ req[r].base <= ver[a]
    BY <1>1, RequestOf DEF SessionInv, Underway
  <1> DEFINE v == req[r].base + 1
  <1>3. Onward /\ ver[a] \in Nat /\ ver'[a] = ver[a] + 1 /\ ver' \in [C!Accounts -> Nat] /\ \A b \in C!Accounts : ver[b] <= ver'[b]
    BY <1>1, <1>2, OnwardBumped, SessionFacts DEF SessionInv, Onward
  <1>4. v \in Nat /\ v <= ver'[a] /\ cached \in Timeouts /\ a \in {Owner, SessionUser} /\ c \in cookies \cup {None}
    BY <1>2, <1>3, SessionFacts DEF C!Accounts
  <1>5. C!SessionsOf(a) \subseteq Sids
    BY <1>2, SessionFacts, ClaimFields DEF C!SessionsOf
  <1> HIDE DEF c, a, v
  <1>6. /\ cookies' \subseteq C!Claims /\ \A x \in cookies' : x.lat >= x.iat /\ x.exp > x.iat
        /\ born' \in [Sids -> C!Times] /\ seen' \in [Sids -> C!Times]
        /\ Cookies' /\ Twins' /\ LastUse' /\ MadeFor(ended \cup C!Made)
    <2>1. CASE c.act = None
      <3>1. C!IssueSession(s, a, None, v, cached, c)
        BY <1>1, <2>1 DEF v
      <3>2. /\ cookies' \subseteq C!Claims /\ \A x \in cookies' : x.lat >= x.iat /\ x.exp > x.iat
            /\ born' \in [Sids -> C!Times] /\ seen' \in [Sids -> C!Times]
            /\ Cookies' /\ Twins' /\ LastUse'
            /\ cookies \subseteq cookies' /\ \A x \in cookies' : x \in cookies \/ x.sid = s
            /\ \A x \in cookies : x.sid # s
        BY <1>1, <1>3, <1>4, <3>1, IssuedKept
      <3> QED BY <3>2 DEF MadeFor, C!Made, SessionInv, Ended
    <2>2. CASE c.act # None
      <3>1. UNCHANGED <<cookies, born, seen>>
        BY <1>1, <2>2
      <3>2. Cookies' /\ Twins' /\ LastUse'
        BY <1>3, <3>1, CookiesQuiet
      <3> QED BY <3>1, <3>2, SessionFacts DEF MadeFor, SessionInv, SessionDomains
    <2> QED BY <2>1, <2>2
  <1>7. \A x \in SessionRequests : req'[x] = req[x] \/ req'[x] = None
    BY <1>1, SessionFacts
  <1>8. C!TypeOK'
    BY <1>1, <1>3, <1>6, <1>7 DEF SessionInv, C!TypeOK
  <1>9. SessionDomains'
    BY <1>1, <1>5, <1>6 DEF SessionInv, SessionDomains
  <1>10. Ended'
    BY <1>1, <1>2, <1>6, EndedAll
  <1>11. Underway'
    BY <1>1, <1>3, <1>6, <1>7, UnderwayKept DEF MadeFor
  <1> QED BY <1>6, <1>8, <1>9, <1>10, <1>11 DEF SessionInv

LEMMA EndAllStep ==
    ASSUME SessionInv, NEW a \in C!Accounts, ver' = [ver EXCEPT ![a] = @ + 1], ended' = ended \cup C!SessionsOf(a), off' \in BOOLEAN,
           UNCHANGED <<plan, now, conf, cached, revoked, cookies, req, born, seen>>
    PROVE  SessionInv'
  <1>1. Onward /\ ver' \in [C!Accounts -> Nat] /\ \A b \in C!Accounts : ver[b] <= ver'[b]
    BY OnwardBumped DEF SessionInv, Onward
  <1>2. C!SessionsOf(a) \subseteq Sids
    BY SessionFacts, ClaimFields DEF C!SessionsOf
  <1>3. C!TypeOK'
    BY <1>1 DEF SessionInv, C!TypeOK
  <1>4. SessionDomains'
    BY <1>2 DEF SessionInv, SessionDomains
  <1>5. MadeFor(ended \cup C!Made)
    BY DEF MadeFor
  <1>6. Ended'
    BY <1>5, EndedAll
  <1>7. Underway'
    BY <1>1, UnderwayKept
  <1>8. Cookies' /\ Twins' /\ LastUse'
    BY <1>1, CookiesQuiet
  <1> QED BY <1>3, <1>4, <1>6, <1>7, <1>8 DEF SessionInv

\* Nothing about cookies, versions or what ended: only the timeouts, the cache, the clock or a Boolean.
LEMMA IdleStep ==
    ASSUME SessionInv, UNCHANGED <<plan, ver, cookies, req, born, seen, ended>>, Onward, now' \in C!Times,
           conf' \in [C!Accounts -> Timeouts], cached' \in Timeouts, off' \in BOOLEAN,
           now' = now \/ \A r \in SessionRequests : req[r] # None => req[r].at # "opened",
           \A s \in Sids : revoked'[s] = revoked[s] \/ (revoked'[s] = None /\ revoked[s] # None /\ revoked[s] < now), DOMAIN revoked' = Sids
    PROVE  SessionInv'
  <1>1. C!TypeOK'
    BY DEF SessionInv, C!TypeOK
  <1>2. SessionDomains'
    BY DEF SessionInv, SessionDomains
  <1>3. MadeFor(ended')
    BY DEF MadeFor
  <1>4. ASSUME NEW c \in cookies, c.sid \in ended
        PROVE  revoked'[c.sid] = revoked[c.sid] \/ (revoked[c.sid] # None => revoked[c.sid] < now')
    <2>1. c.sid \in Sids /\ now \in Nat /\ now' \in Nat /\ now <= now' /\ (revoked[c.sid] # None => revoked[c.sid] \in Nat)
      BY SessionFacts, ClaimFields DEF Onward
    <2> QED BY <2>1
  <1>5. Ended'
    <2>1. \A s \in Sids : revoked'[s] # None => s \in ended'
      BY DEF SessionInv, Ended
    <2> QED BY <1>3, <1>4, <2>1, EndedKept
  <1>6. Underway'
    BY UnderwayKept, SessionFacts
  <1>7. Cookies' /\ Twins' /\ LastUse'
    BY CookiesQuiet
  <1> QED BY <1>1, <1>2, <1>5, <1>6, <1>7 DEF SessionInv

LEMMA SetTimeoutsStep == ASSUME ~MayRaise, SessionInv, NEW a \in C!Accounts, NEW t \in Timeouts, C!SetTimeouts(a, t) PROVE SessionInv'
  <1>1. /\ t.idle <= conf[a].idle /\ t.abs <= conf[a].abs /\ conf' = [conf EXCEPT ![a] = t]
        /\ UNCHANGED <<plan, now, cached, ver, off, revoked, cookies, req, born, ended, seen>>
    BY DEF C!SetTimeouts
  <1>2. conf' \in [C!Accounts -> Timeouts] /\ \A b \in C!Accounts : conf'[b].abs <= conf[b].abs /\ conf'[b].abs \in Nat /\ conf[b].abs \in Nat
    <2>1. conf' \in [C!Accounts -> Timeouts] /\ conf \in [C!Accounts -> Timeouts]
      BY <1>1, SessionFacts
    <2>2. ASSUME NEW b \in C!Accounts PROVE conf'[b].abs <= conf[b].abs /\ conf'[b].abs \in Nat /\ conf[b].abs \in Nat
      <3>1. conf[b] \in Timeouts /\ conf'[b] \in Timeouts /\ (b = a => conf'[b] = t) /\ (b # a => conf'[b] = conf[b])
        BY <1>1, <2>1
      <3>2. conf[b].abs \in Nat /\ conf'[b].abs \in Nat
        BY <3>1, SessionConsts
      <3> QED BY <1>1, <3>1, <3>2
    <2> QED BY <2>1, <2>2
  <1>3. ASSUME NEW c \in C!Claims PROVE Cut(c)' \in Int /\ Cut(c)' <= Cut(c)
    <2>1. C!Holder(c) \in C!Accounts /\ c.uid \in C!Accounts /\ Owner \in C!Accounts /\ c.iat \in Nat /\ c.exp \in Nat
      BY ClaimFields DEF C!Accounts
    <2>2. \E b \in C!Accounts : C!TimeoutsOf(c) = conf[b] /\ C!TimeoutsOf(c)' = conf'[b]
      BY <2>1 DEF C!TimeoutsOf
    <2> QED BY <1>2, <2>1, <2>2 DEF Cut, C!Min2
  <1>4. Onward
    BY <1>1, <1>3, SessionFacts DEF Onward
  <1> QED BY <1>1, <1>2, <1>4, SessionFacts, IdleStep

LEMMA AcceptStep == ASSUME SessionInv, NEW r \in SessionRequests, C!Accept(r) PROVE SessionInv' /\ req[r].c.sid \notin ended
  <1> DEFINE q == req[r]
             c == q.c
             x == C!SlidFrom(c, now)
  <1>1. /\ q # None /\ q.at = "opened" /\ C!Resolves(c) /\ ~C!TimedOut(c, q.t)
        /\ cookies' = (IF C!Slides(c, q.t) THEN cookies \cup {C!SlidFrom(c, q.t)} ELSE cookies)
        /\ \/ req' = [req EXCEPT ![r] = None]
           \/ req' = [req EXCEPT ![r] = [q EXCEPT !.at = "signed in"]]
        /\ seen' = [seen EXCEPT ![c.sid] = IF q.t > @ THEN q.t ELSE @]
        /\ UNCHANGED <<plan, now, conf, cached, ver, off, revoked, left, born, ended>>
    BY DEF C!Accept, C!Answered
  <1>2. q \in C!Request /\ c \in cookies /\ c \in C!Claims /\ q.t = now
    BY <1>1, RequestOf DEF SessionInv, Underway
  <1>3. /\ now \in Nat /\ now \in C!Times /\ now <= SessionTime /\ cookies \subseteq C!Claims /\ seen \in [Sids -> C!Times] /\ born \in [Sids -> C!Times]
        /\ c.lat <= now /\ c.lat >= c.iat /\ c.exp > c.iat /\ c.iat \in Nat /\ c.lat \in Nat /\ c.exp \in Nat /\ c.sid \in Sids
        /\ seen[c.sid] <= now /\ born[c.sid] <= c.iat /\ c.exp <= born[c.sid] + C!LongestAbs /\ c.ver <= ver[C!Holder(c)]
    BY <1>2, SessionFacts, ClaimFields, SessionConsts DEF SessionInv, SessionDomains, Cookies, C!Times
  <1>4. seen[c.sid] \in Nat /\ born[c.sid] \in Nat /\ C!LongestAbs \in Nat /\ Slide \in Nat /\ Slide > 0
    BY <1>3, SessionConsts, Longest
  <1>5. C!TimeoutsOf(c).abs \in Nat /\ C!TimeoutsOf(c).abs > 0 /\ Cut(c) \in Nat /\ Cut(c) = C!Min2(c.exp, c.iat + C!TimeoutsOf(c).abs)
    BY <1>2, TimeoutsTyped, SessionConsts DEF SessionInv, Cut
  <1>6. now < c.exp /\ now - c.iat <= C!TimeoutsOf(c).abs
    <2>1. ~C!TimedOut(c, now)
      BY <1>1, <1>2
    <2> HIDE DEF q, c, x
    <2>2. ~(now >= c.exp) /\ ~(now - c.iat > C!TimeoutsOf(c).abs)
      BY <2>1 DEF C!TimedOut
    <2> QED BY <1>3, <1>5, <2>2
  <1>7. now <= Cut(c)
    BY <1>3, <1>5, <1>6 DEF C!Min2
  <1>8. c.sid \notin ended
    <2>1. revoked[c.sid] = None /\ ver[C!Holder(c)] = c.ver /\ c.ver \in Nat
      BY <1>1, <1>2, ClaimFields DEF C!Resolves
    <2>2. ~Dead(c)
      BY <1>3, <1>5, <1>7, <2>1 DEF Dead
    <2> QED BY <1>2, <2>2 DEF SessionInv, Ended
  <1>9. /\ x \in C!Claims /\ x.sid = c.sid /\ x.uid = c.uid /\ x.act = c.act /\ x.ver = c.ver /\ x.iat = c.iat
        /\ x.lat = now /\ x.exp = Cut(c)
    BY <1>2, <1>3, <1>5 DEF C!SlidFrom, C!Claims
  <1>10. x.exp > x.iat /\ x.exp <= c.exp /\ C!Holder(x) = C!Holder(c) /\ C!TimeoutsOf(x) = C!TimeoutsOf(c) /\ Cut(x) = Cut(c)
    BY <1>3, <1>5, <1>9 DEF C!Min2, C!Holder, C!TimeoutsOf, Cut
  <1>11. cookies' \subseteq cookies \cup {x} /\ cookies \subseteq cookies' /\ (c.lat + Slide <= now => x \in cookies')
    <2>1. cookies' = IF C!Slides(c, now) THEN cookies \cup {x} ELSE cookies
      BY <1>1, <1>2
    <2> HIDE DEF q, c, x
    <2>2. c.lat + Slide <= now => C!Slides(c, now)
      BY <1>3, <1>4 DEF C!Slides
    <2> QED BY <2>1, <2>2
  <1>12. seen' \in [Sids -> C!Times] /\ seen'[c.sid] = now /\ \A s \in Sids : s # c.sid => seen'[s] = seen[s]
    <2>1. (IF now > seen[c.sid] THEN now ELSE seen[c.sid]) = now
      BY <1>3, <1>4
    <2>2. seen' = [seen EXCEPT ![c.sid] = now]
      BY <1>1, <1>2, <1>3, <2>1
    <2> QED BY <1>3, <2>2
  <1>13. \A y : Cut(y)' = Cut(y) /\ C!Holder(y)' = C!Holder(y)
    BY <1>1 DEF Cut, C!TimeoutsOf, C!Holder
  <1> HIDE DEF q, c, x
  <1>14. \A s \in SessionRequests : \/ req'[s] = req[s] \/ req'[s] = None
                                    \/ req'[s] \in C!Request /\ req'[s].c \in cookies /\ req'[s].at = "signed in"
    <2>1. CASE req' = [req EXCEPT ![r] = None]
      BY <2>1, SessionFacts
    <2>2. CASE req' = [req EXCEPT ![r] = [q EXCEPT !.at = "signed in"]]
      <3>1. [q EXCEPT !.at = "signed in"] \in C!Request /\ [q EXCEPT !.at = "signed in"].c = q.c /\ [q EXCEPT !.at = "signed in"].at = "signed in"
        BY <1>2 DEF C!Request
      <3> QED BY <1>2, <2>2, <3>1, SessionFacts DEF c
    <2> QED BY <1>1, <2>1, <2>2
  <1>15. C!TypeOK'
    <2>1. cookies' \subseteq C!Claims /\ \A y \in cookies' : y.lat >= y.iat /\ y.exp > y.iat
      BY <1>3, <1>9, <1>10, <1>11, SessionFacts
    <2> QED BY <1>1, <1>14, <2>1 DEF SessionInv, C!TypeOK
  <1>16. SessionDomains'
    <2>1. DOMAIN req' = SessionRequests
      BY <1>1, SessionFacts
    <2> QED BY <1>1, <1>12, <2>1 DEF SessionInv, SessionDomains
  <1>17. Cookies'
    <2>1. ASSUME NEW y \in cookies PROVE y.lat <= seen'[y.sid] /\ seen'[y.sid] <= now
      <3>1. y.sid \in Sids /\ y.lat <= seen[y.sid] /\ seen[y.sid] <= now /\ y.lat <= now
        BY <1>3, ClaimFields DEF SessionInv, Cookies
      <3> QED BY <1>3, <1>12, <3>1
    <2>2. x.exp <= born[x.sid] + C!LongestAbs
      BY <1>2, <1>3, <1>4, <1>5, <1>9, <1>10
    <2>3. ASSUME NEW y \in cookies
          PROVE  /\ y.lat <= now /\ born[y.sid] <= y.iat /\ y.exp <= born[y.sid] + C!LongestAbs /\ y.ver <= ver[C!Holder(y)]
      BY DEF SessionInv, Cookies
    <2>4. x.lat <= seen'[x.sid] /\ seen'[x.sid] <= now /\ x.lat <= now /\ born[x.sid] <= x.iat /\ x.ver <= ver[C!Holder(x)]
      BY <1>3, <1>9, <1>10, <1>12
    <2>5. ASSUME NEW y \in cookies'
          PROVE  /\ y.lat <= now /\ y.lat <= seen'[y.sid] /\ seen'[y.sid] <= now
                 /\ born[y.sid] <= y.iat /\ y.exp <= born[y.sid] + C!LongestAbs /\ y.ver <= ver[C!Holder(y)]
      <3>1. CASE y = x
        BY <2>2, <2>4, <3>1
      <3>2. CASE y # x
        <4>1. y \in cookies
          BY <1>11, <3>2
        <4> QED BY <2>1, <2>3, <4>1
      <3> QED BY <3>1, <3>2
    <2> QED BY <1>1, <1>13, <2>5 DEF Cookies
  <1>18. Twins'
    <2>1. ASSUME NEW y \in cookies, NEW z \in cookies, y.sid = z.sid
          PROVE  y.uid = z.uid /\ y.act = z.act /\ y.ver = z.ver /\ y.iat = z.iat /\ Cut(y) <= z.exp
      BY <2>1 DEF SessionInv, Twins
    <2>2. ASSUME NEW y \in cookies, y.sid = c.sid
          PROVE  y.uid = c.uid /\ y.act = c.act /\ y.ver = c.ver /\ y.iat = c.iat /\ Cut(y) <= Cut(c) /\ Cut(c) <= y.exp
      <3>1. y.uid = c.uid /\ y.act = c.act /\ y.ver = c.ver /\ y.iat = c.iat /\ Cut(y) <= c.exp /\ Cut(c) <= y.exp
        BY <1>2, <2>1, <2>2
      <3>2. C!TimeoutsOf(y) = C!TimeoutsOf(c)
        BY <3>1 DEF C!TimeoutsOf
      <3>3. Cut(y) \in Nat /\ Cut(y) <= c.iat + C!TimeoutsOf(c).abs
        BY <1>3, <3>1, <3>2, TimeoutsTyped DEF SessionInv
      <3> QED BY <1>3, <1>5, <3>1, <3>3 DEF C!Min2
    <2>3. Cut(x) <= x.exp /\ Cut(x) <= Cut(c) /\ Cut(c) <= x.exp
      BY <1>5, <1>9, <1>10
    <2> QED BY <1>9, <1>10, <1>11, <1>13, <2>1, <2>2, <2>3 DEF Twins
  <1>19. LastUse'
    <2>1. ASSUME NEW y \in cookies', y.sid = c.sid PROVE \E d \in cookies' : d.sid = y.sid /\ seen'[y.sid] < d.lat + Slide
      <3>1. CASE c.lat + Slide <= now
        BY <1>3, <1>4, <1>9, <1>11, <1>12, <2>1, <3>1
      <3>2. CASE ~(c.lat + Slide <= now)
        BY <1>2, <1>3, <1>4, <1>11, <1>12, <2>1, <3>2
      <3> QED BY <3>1, <3>2
    <2>2. ASSUME NEW y \in cookies', y.sid # c.sid PROVE \E d \in cookies' : d.sid = y.sid /\ seen'[y.sid] < d.lat + Slide
      <3>1. y \in cookies /\ y.sid \in Sids
        BY <1>3, <1>9, <1>11, <2>2, ClaimFields
      <3> QED BY <1>11, <1>12, <2>2, <3>1 DEF SessionInv, LastUse
    <2> QED BY <2>1, <2>2 DEF LastUse
  <1>20. Onward
    <2>1. now' \in Nat /\ now <= now' /\ ver' \in [C!Accounts -> Nat] /\ \A a \in C!Accounts : ver[a] <= ver'[a]
      <3>1. now' = now /\ ver' = ver
        BY <1>1
      <3>2. ver \in [C!Accounts -> Nat] /\ (\A a \in C!Accounts : ver[a] <= ver[a]) /\ now <= now
        BY <1>3, SessionFacts
      <3> QED BY <1>3, <3>1, <3>2
    <2>2. UNCHANGED conf
      BY <1>1
    <2>3. C!TypeOK
      BY DEF SessionInv
    <2> QED BY <2>1, <2>2, <2>3, OnwardSame
  <1>21. Ended'
    <2>1. MadeFor(ended)
      BY <1>8, <1>9, <1>11 DEF MadeFor
    <2> QED BY <1>1, <1>20, <2>1, EndedSame
  <1>22. Underway'
    BY <1>1, <1>11, <1>14, UnderwayKept, SessionFacts
  <1>23. SessionInv'
    BY <1>15, <1>16, <1>17, <1>18, <1>19, <1>21, <1>22 DEF SessionInv
  <1> QED BY <1>8, <1>23 DEF c, q

LEMMA SessionStep == ASSUME ~MayRaise, SessionInv, C!Next PROVE SessionInv'
  <1>1. ASSUME NEW s \in Sids, NEW a \in C!Accounts, C!Login(s, a) PROVE SessionInv'
    BY <1>1, LoginStep
  <1>2. ASSUME NEW r \in SessionRequests, NEW c \in cookies, C!Open(r, c) PROVE SessionInv'
    BY <1>2, OpenStep
  <1>3. ASSUME NEW r \in SessionRequests, C!Accept(r) \/ C!Refuse(r) \/ C!Logout(r) \/ C!StartChange(r) PROVE SessionInv'
    BY <1>3, AcceptStep, RefuseStep, LogoutStep, StartChangeStep
  <1>4. ASSUME NEW r \in SessionRequests, NEW s \in Sids, C!Impersonate(r, s) \/ C!EndImpersonation(r, s) \/ C!ChangePassword(r, s) PROVE SessionInv'
    BY <1>4, ImpersonateStep, EndImpersonationStep, ChangePasswordStep
  <1>5. ASSUME NEW a \in C!Accounts, C!EndSessions(a) PROVE SessionInv'
    BY <1>5, EndAllStep, SessionFacts DEF C!EndSessions, C!EndAll
  <1>6. ASSUME NEW a \in C!Accounts, NEW t \in Timeouts, C!SetTimeouts(a, t) PROVE SessionInv'
    BY <1>6, SetTimeoutsStep
  <1>7. CASE C!Disable
    BY <1>7, EndAllStep DEF C!Disable, C!DisableUser, C!Accounts
  <1>s. ASSUME UNCHANGED <<now, conf, ver>> PROVE Onward
    BY <1>s, OnwardSame, SessionFacts DEF SessionInv
  <1>8. CASE C!Enable
    BY <1>8, <1>s, IdleStep, SessionFacts DEF C!Enable, C!EnableUser
  <1>9. CASE C!Refresh
    <2>1. cached' \in Timeouts
      BY <1>9, SessionFacts DEF C!Refresh, C!Accounts
    <2> QED BY <1>9, <1>s, <2>1, IdleStep, SessionFacts DEF C!Refresh
  <1>10. CASE C!Alarm
    <2>1. /\ revoked' = [s \in Sids |-> IF C!Pruned(s) THEN None ELSE revoked[s]]
          /\ UNCHANGED <<plan, now, conf, cached, ver, off, cookies, req, left, born, ended, seen>>
      BY <1>10 DEF C!Alarm
    <2>2. DOMAIN revoked' = Sids /\ \A s \in Sids : revoked'[s] = revoked[s] \/ (revoked'[s] = None /\ revoked[s] # None /\ revoked[s] < now)
      BY <2>1 DEF C!Pruned
    <2> QED BY <1>s, <2>1, <2>2, IdleStep, SessionFacts
  <1>11. CASE C!Tick
    <2>1. /\ now < plan.until /\ now' = now + 1 /\ (\A r \in SessionRequests : req[r] # None => req[r].at # "opened")
          /\ UNCHANGED <<plan, conf, cached, ver, off, revoked, cookies, req, left, born, ended, seen>>
      BY <1>11 DEF C!Tick
    <2>2. plan.until \in C!Times
      BY DEF SessionInv, SessionDomains, C!Plan
    <2>3. now' \in C!Times /\ now' \in Nat /\ now <= now'
      BY <2>1, <2>2, SessionFacts, SessionConsts DEF C!Times
    <2>4. Onward
      BY <2>1, <2>3, OnwardSame, SessionFacts DEF SessionInv
    <2> QED BY <2>1, <2>3, <2>4, IdleStep, SessionFacts
  <1> QED BY <1>1, <1>2, <1>3, <1>4, <1>5, <1>6, <1>7, <1>8, <1>9, <1>10, <1>11 DEF C!Next

\* What an accepted cookie says.
LEMMA AcceptedCookie ==
    ASSUME SessionInv, NEW r \in SessionRequests, C!Accept(r)
    PROVE  /\ req[r].c.sid \notin ended /\ req[r].t < born[req[r].c.sid] + C!LongestAbs
           /\ req[r].t - seen[req[r].c.sid] <= C!LongestIdle
  <1> DEFINE c == req[r].c
             t == req[r].t
  <1>1. c.sid \notin ended
    BY AcceptStep
  <1>2. req[r] # None /\ req[r].at = "opened" /\ ~C!TimedOut(c, t)
    BY DEF C!Accept
  <1>3. c \in cookies /\ c \in C!Claims /\ t = now
    BY <1>2, RequestOf DEF SessionInv, Underway
  <1> HIDE DEF c, t
  <1>4. ~(now >= c.exp) /\ ~(now - c.lat > C!TimeoutsOf(c).idle)
    BY <1>2, <1>3 DEF C!TimedOut
  <1>5. /\ now \in Nat /\ c.exp \in Nat /\ c.lat \in Nat /\ C!LongestIdle \in Nat /\ C!LongestAbs \in Nat
        /\ c.sid \in Sids /\ C!TimeoutsOf(c) \in Timeouts /\ C!TimeoutsOf(c).idle \in Nat /\ C!TimeoutsOf(c).idle <= C!LongestIdle
    BY <1>3, SessionFacts, ClaimFields, TimeoutsTyped, Longest DEF SessionInv
  <1>6. c.lat <= seen[c.sid] /\ c.exp <= born[c.sid] + C!LongestAbs /\ seen[c.sid] \in Nat /\ born[c.sid] \in Nat
    BY <1>3, <1>5, SessionConsts DEF SessionInv, Cookies, SessionDomains
  <1>7. t < born[c.sid] + C!LongestAbs /\ t - seen[c.sid] <= C!LongestIdle
    BY <1>3, <1>4, <1>5, <1>6
  <1> QED BY <1>1, <1>7 DEF c, t

\* Whom the server refuses.
LEMMA RefusedCookie == ASSUME SessionInv PROVE C!ActiveStaysIn
  <1> SUFFICES ASSUME NEW r \in SessionRequests, C!Refuse(r)
               PROVE  \/ req[r].c.sid \in ended \/ (off /\ req[r].c.uid = SessionUser) \/ ~C!Newest(req[r].c)
                      \/ req[r].c.ver # ver[C!Holder(req[r].c)] \/ req[r].t - seen[req[r].c.sid] > C!TimeoutsOf(req[r].c).idle - Slide
                      \/ req[r].t >= req[r].c.exp \/ req[r].t - born[req[r].c.sid] > C!TimeoutsOf(req[r].c).abs
    BY DEF C!ActiveStaysIn
  <1> DEFINE c == req[r].c
             t == req[r].t
  <1>1. req[r] # None /\ req[r].at = "opened" /\ (~C!Resolves(c) \/ C!TimedOut(c, t))
    BY DEF C!Refuse
  <1>2. c \in cookies /\ c \in C!Claims /\ t = now
    BY <1>1, RequestOf DEF SessionInv, Underway
  <1> HIDE DEF c, t
  <1>3. CASE ~C!Resolves(c)
    <2>1. revoked[c.sid] # None \/ (off /\ c.uid = SessionUser) \/ ver[C!Holder(c)] # c.ver
      BY <1>3 DEF C!Resolves
    <2>2. revoked[c.sid] # None => c.sid \in ended
      BY <1>2, ClaimFields DEF SessionInv, Ended
    <2> QED BY <2>1, <2>2 DEF c
  <1>4. CASE C!TimedOut(c, t) /\ C!Newest(c)
    <2>1. \/ now >= c.exp \/ now - c.lat > C!TimeoutsOf(c).idle \/ now - c.iat > C!TimeoutsOf(c).abs
      BY <1>2, <1>4 DEF C!TimedOut
    <2>2. PICK d \in cookies : d.sid = c.sid /\ seen[c.sid] < d.lat + Slide
      BY <1>2 DEF SessionInv, LastUse
    <2>3. d.lat <= c.lat
      BY <1>4, <2>2 DEF C!Newest
    <2>4. /\ now \in Nat /\ c.lat \in Nat /\ d.lat \in Nat /\ c.iat \in Nat /\ Slide \in Nat
          /\ c.sid \in Sids /\ C!TimeoutsOf(c).idle \in Nat /\ C!TimeoutsOf(c).abs \in Nat
      BY <1>2, <2>2, SessionFacts, ClaimFields, TimeoutsTyped, SessionConsts DEF SessionInv
    <2>5. seen[c.sid] \in Nat /\ born[c.sid] \in Nat /\ born[c.sid] <= c.iat
      BY <1>2, <2>4, SessionConsts DEF SessionInv, Cookies, SessionDomains
    <2>6. CASE now - c.lat > C!TimeoutsOf(c).idle
      <3>1. seen[c.sid] < c.lat + Slide
        BY <2>2, <2>3, <2>4, <2>5
      <3>2. now - seen[c.sid] > C!TimeoutsOf(c).idle - Slide
        BY <2>4, <2>5, <2>6, <3>1
      <3> QED BY <1>2, <3>2 DEF c, t
    <2>7. CASE now - c.iat > C!TimeoutsOf(c).abs
      <3>1. now - born[c.sid] > C!TimeoutsOf(c).abs
        BY <2>4, <2>5, <2>7
      <3> QED BY <1>2, <3>1 DEF c, t
    <2>8. CASE now >= c.exp
      BY <1>2, <2>8 DEF c, t
    <2> QED BY <2>1, <2>6, <2>7, <2>8
  <1>5. CASE ~C!Newest(c)
    BY <1>5 DEF c
  <1> QED BY <1>1, <1>3, <1>4, <1>5

LEMMA SessionActs == ASSUME SessionInv PROVE C!EndedStaysOut /\ C!AbsoluteEnd /\ C!IdleEnd /\ C!ActiveStaysIn
  BY AcceptedCookie, RefusedCookie DEF C!EndedStaysOut, C!AbsoluteEnd, C!IdleEnd

LEMMA SessionFacesForward == ASSUME SessionInv PROVE C!NoneAhead
  BY DEF SessionInv, Cookies, C!NoneAhead

\* A step of none of these.
LEMMA SessionStutter ==
    ASSUME SessionInv, UNCHANGED <<plan, now, conf, cached, ver, off, revoked, cookies, req, born, ended, seen>>
    PROVE  SessionInv'
  <1>1. Onward
    BY OnwardSame, SessionFacts DEF SessionInv
  <1>2. DOMAIN revoked' = Sids
    BY SessionFacts
  <1> QED BY <1>1, <1>2, IdleStep, SessionFacts

-----------------------------------------------------------------------------
(***************************************************************************)
(* A page and the session it was loaded for                                *)
(***************************************************************************)
PageReply == [who : Who, token : Nat, idle : Nat, ends : Nat]
PageWatches == [idle : Nat, ends : Nat, shown : {None, "idle", "absolute", "expired"}, seen : BOOLEAN, expired : BOOLEAN, locked : BOOLEAN,
                changed : BOOLEAN, keys : BOOLEAN, of : Nat]
PageSessions == [who : Who, token : Nat, slid : Nat, ends : Nat]
PageAsks == [op : {"stay", "recheck"}, at : {"sent", "answered"}, by : Nat, got : PageReply \cup {None}]
PageChanges == [at : {"sent", "made", "mismatch", "signed out", "asking", "told"}, for : Who, token : Nat, again : BOOLEAN, by : Nat,
                got : PageReply \cup {None}]
PageTypes ==
    /\ now \in Nat /\ tokens \in Nat /\ left \in P!Plan /\ DOMAIN asks = Watches
    /\ session # None => session \in PageSessions
    /\ page # None => page \in [who : Who, token : Nat]
    /\ st \in PageWatches
    /\ \A w \in Watches : asks[w] # None => asks[w] \in PageAsks
    /\ change # None => change \in PageChanges

\* A token is of one session, and who has it there is whom a page or a change with it is for.
OfToken(token, who, s, n) == token <= n /\ (s # None /\ s.token = token => s.who = who)
PageTokens ==
    /\ st.of <= tokens
    /\ session # None => session.token <= tokens
    /\ page # None => OfToken(page.token, page.who, session, tokens)
    /\ change # None => OfToken(change.token, change.for, session, tokens) /\ (page # None => change.for = page.who)

\* An answer given since `by`: of a session that had not ended then, and that is there as it says, slid since, or is not there any more.
SlidSince(by, s) == s # None => by <= s.slid + PageSlide
Told(g, by, s, n) ==
    /\ OfToken(g.token, g.who, s, n) /\ by < g.idle /\ by < g.ends /\ SlidSince(by, s)
    /\ s # None /\ s.token = g.token => s.ends = g.ends /\ g.idle <= s.slid + PageIdle
InTime(a, t, s, n) ==
    /\ a.by <= t /\ t <= a.by + Lag
    /\ a.got # None => Told(a.got, a.by, s, n)
PageAnswers ==
    /\ \A w \in Watches : asks[w] # None => InTime(asks[w], now, session, tokens)
    /\ change # None => /\ InTime(change, now, session, tokens) /\ (change.got # None => change.at = "told")
                        /\ change.at = "made" => SlidSince(change.by, session)

\* What the page takes for its end is at most an answer later than it is.
PageWatch == session # None /\ session.token = st.of => st.ends = session.ends /\ st.idle <= session.slid + PageIdle + Lag
PageDialog ==
    /\ st.shown = "expired" => st.locked
    /\ st.changed => st.locked /\ st.expired /\ page = None /\ st.shown # "idle"

\* While no prompt answer was a refusal: a page locked for time shows that its session is over until it is.
PagePrompt ==
    left.prompt => /\ st.locked /\ ~st.changed => st.shown = "expired" /\ st.expired /\ (st.idle <= now \/ st.ends <= now)
                   /\ \A w \in Watches : asks[w] # None /\ asks[w].op = "stay" => st.changed \/ ~st.locked

PageInv == PageTypes /\ PageTokens /\ PageAnswers /\ PageWatch /\ PageDialog /\ PagePrompt /\ P!HiddenInTime /\ P!KeysGone /\ P!NeverForAnother

LEMMA PageConsts ==
    /\ PageIdle \in Nat /\ PageAbs \in Nat /\ PageSlide \in Nat /\ Warn \in Nat /\ Lag \in Nat /\ PageSlide < PageIdle /\ Warn < PageIdle /\ 0 < PageAbs
    /\ None \notin {"idle", "absolute", "expired"} /\ None \notin [who : Who, token : Nat]
  BY DirectoryAssumption DEF DirectoryAssumption, P!PageAssumption

LEMMA PageInit == P!Init => PageInv
  <1> SUFFICES ASSUME P!Init PROVE PageInv
    OBVIOUS
  <1>1. left \in P!Plan
    BY DirectoryAssumption DEF P!Init, DirectoryAssumption, P!PlansAssumption
  <1>2. PICK w \in Who :
           /\ session = [who |-> w, token |-> 1, slid |-> 0, ends |-> 0 + PageAbs] /\ page = [who |-> w, token |-> 1]
           /\ st = [idle |-> PageIdle, ends |-> PageAbs, shown |-> None, seen |-> FALSE, expired |-> FALSE, locked |-> FALSE, changed |-> FALSE,
                    keys |-> TRUE, of |-> 1]
    BY DEF P!Init, P!Fresh
  <1>3. now = 0 /\ tokens = 1 /\ asks = [v \in Watches |-> None] /\ change = None /\ done = {}
    BY DEF P!Init
  <1>4. page \in [who : Who, token : Nat] /\ page # None
    BY <1>2, PageConsts
  <1>5. /\ st \in PageWatches /\ st.idle = PageIdle /\ st.ends = PageAbs /\ st.shown = None /\ st.locked = FALSE /\ st.changed = FALSE
        /\ st.keys = TRUE /\ st.of = 1
    BY <1>2, PageConsts DEF PageWatches
  <1>6. session \in PageSessions /\ session.who = page.who /\ session.token = 1 /\ page.token = 1 /\ session.slid = 0 /\ session.ends = PageAbs
    BY <1>2, PageConsts DEF PageSessions
  <1>7. PageTypes
    BY <1>1, <1>3, <1>4, <1>5, <1>6 DEF PageTypes
  <1>8. PageTokens /\ PageAnswers
    BY <1>3, <1>5, <1>6 DEF PageTokens, PageAnswers, OfToken
  <1>9. PageWatch /\ PageDialog /\ PagePrompt
    BY <1>3, <1>5, <1>6, PageConsts DEF PageWatch, PageDialog, PagePrompt
  <1>10. P!HiddenInTime
    BY <1>3, <1>5, <1>6, PageConsts DEF P!HiddenInTime, P!EndOf, P!Least
  <1> QED BY <1>3, <1>4, <1>5, <1>7, <1>8, <1>9, <1>10 DEF PageInv, P!KeysGone, P!NeverForAnother

-----------------------------------------------------------------------------
\* What the ways to go on do to the watch.
LEMMA WatchClosed ==
    ASSUME NEW x \in PageWatches
    PROVE  /\ P!Closed(x) \in PageWatches /\ P!Closed(x).shown = None /\ P!Closed(x).idle = x.idle /\ P!Closed(x).ends = x.ends
           /\ P!Closed(x).expired = x.expired /\ P!Closed(x).locked = x.locked /\ P!Closed(x).changed = x.changed
           /\ P!Closed(x).keys = x.keys /\ P!Closed(x).of = x.of
  BY DEF PageWatches, P!Closed

LEMMA WatchLock ==
    ASSUME NEW x \in PageWatches
    PROVE  /\ P!Lock(x) \in PageWatches /\ P!Lock(x).shown = x.shown /\ P!Lock(x).idle = x.idle /\ P!Lock(x).ends = x.ends
           /\ P!Lock(x).expired = x.expired /\ P!Lock(x).locked = TRUE /\ P!Lock(x).changed = x.changed
           /\ (P!Lock(x).keys => x.locked /\ x.keys) /\ P!Lock(x).of = x.of
  <1>1. CASE x.locked
    BY <1>1 DEF PageWatches, P!Lock
  <1>2. CASE ~x.locked
    BY <1>2 DEF PageWatches, P!Lock
  <1> QED BY <1>1, <1>2

LEMMA WatchExpire ==
    ASSUME NEW x \in PageWatches
    PROVE  /\ P!Expire(x) \in PageWatches /\ P!Expire(x).shown = "expired" /\ P!Expire(x).idle = x.idle /\ P!Expire(x).ends = x.ends
           /\ P!Expire(x).expired = TRUE /\ P!Expire(x).locked = TRUE /\ P!Expire(x).changed = x.changed
           /\ (P!Expire(x).keys => x.locked /\ x.keys) /\ P!Expire(x).of = x.of
  <1> DEFINE y == P!Lock(x)
  <1>1. /\ y \in PageWatches /\ y.idle = x.idle /\ y.ends = x.ends
        /\ y.locked = TRUE /\ y.changed = x.changed /\ (y.keys => x.locked /\ x.keys) /\ y.of = x.of
    BY WatchLock
  <1>2. P!Expire(x) = [y EXCEPT !.expired = TRUE, !.shown = "expired"]
    BY DEF P!Expire
  <1> HIDE DEF y
  <1> QED BY <1>1, <1>2 DEF PageWatches

LEMMA WatchChanged ==
    ASSUME NEW x \in PageWatches
    PROVE  /\ P!SessionChanged(x) \in PageWatches /\ P!SessionChanged(x).shown = None /\ P!SessionChanged(x).idle = x.idle
           /\ P!SessionChanged(x).ends = x.ends /\ P!SessionChanged(x).expired = TRUE /\ P!SessionChanged(x).locked = TRUE
           /\ P!SessionChanged(x).changed = TRUE /\ P!SessionChanged(x).keys = FALSE /\ P!SessionChanged(x).of = x.of
  <1> DEFINE y == P!Closed(P!Lock(x))
  <1>1. y \in PageWatches /\ y.shown = None /\ y.idle = x.idle /\ y.ends = x.ends /\ y.locked = TRUE /\ y.of = x.of
    BY WatchLock, WatchClosed
  <1>2. P!SessionChanged(x) = [y EXCEPT !.changed = TRUE, !.expired = TRUE, !.keys = FALSE]
    BY DEF P!SessionChanged
  <1> HIDE DEF y
  <1> QED BY <1>1, <1>2 DEF PageWatches

LEMMA WatchAdopt ==
    ASSUME NEW x \in PageWatches, NEW g \in PageReply
    PROVE  /\ P!Adopt(x, g) \in PageWatches /\ P!Adopt(x, g).shown = x.shown /\ P!Adopt(x, g).idle = g.idle
           /\ P!Adopt(x, g).ends = g.ends /\ P!Adopt(x, g).expired = FALSE /\ P!Adopt(x, g).locked = x.locked
           /\ P!Adopt(x, g).changed = x.changed /\ P!Adopt(x, g).keys = x.keys /\ P!Adopt(x, g).of = g.token
  <1>1. (x.seen /\ g.ends = x.ends) \in BOOLEAN /\ g.idle \in Nat /\ g.ends \in Nat /\ g.token \in Nat
    BY DEF PageReply
  <1> QED BY <1>1 DEF PageWatches, P!Adopt

LEMMA WatchActive ==
    ASSUME NEW x \in PageWatches, now \in Nat
    PROVE  /\ P!Active(x) \in PageWatches /\ (x.expired => P!Active(x) = x)
           /\ P!Active(x).shown = x.shown \/ P!Active(x).shown = None
           /\ P!Active(x).idle <= x.idle \/ P!Active(x).idle <= now + PageIdle - PageSlide
           /\ P!Active(x).ends = x.ends /\ P!Active(x).expired = x.expired /\ P!Active(x).locked = x.locked
           /\ P!Active(x).changed = x.changed /\ P!Active(x).keys = x.keys /\ P!Active(x).of = x.of
  <1> DEFINE until == P!Least(x.ends, P!Most(x.idle, now + PageIdle - PageSlide))
             shown == IF x.shown = "idle" /\ until - now > Warn THEN None ELSE x.shown
  <1>1. x.idle \in Nat /\ x.ends \in Nat /\ x.shown \in {None, "idle", "absolute", "expired"}
    BY DEF PageWatches
  <1>2. until \in Nat /\ (until <= x.idle \/ until <= now + PageIdle - PageSlide)
    BY <1>1, PageConsts DEF P!Least, P!Most
  <1>3. P!Active(x) = IF x.expired THEN x ELSE [x EXCEPT !.idle = until, !.shown = shown]
    BY DEF P!Active
  <1>4. shown \in {None, "idle", "absolute", "expired"} /\ (shown = x.shown \/ shown = None)
    BY <1>1
  <1> HIDE DEF until, shown
  <1>5. CASE x.expired
    <2>1. P!Active(x) = x
      BY <1>3, <1>5
    <2> QED BY <1>1, <2>1
  <1>6. CASE ~x.expired
    BY <1>2, <1>3, <1>4, <1>6 DEF PageWatches
  <1> QED BY <1>5, <1>6

\* A second later: nothing but the dialog changes before the time, and the page is locked after it.
LEMMA WatchTicked ==
    ASSUME NEW x \in PageWatches, NEW t \in Nat
    PROVE  LET y == P!Ticked(x, t) IN
           /\ y \in PageWatches /\ y.idle = x.idle /\ y.ends = x.ends /\ y.of = x.of /\ y.changed = x.changed
           /\ \/ x.changed /\ y = x
              \/ ~x.changed /\ (x.idle <= t \/ x.ends <= t) /\ x.shown # "expired" /\ y = P!Expire(x)
              \/ /\ ~x.changed /\ (x.idle <= t \/ x.ends <= t) /\ x.shown = "expired" /\ y.shown = "expired" /\ y.expired = TRUE
                 /\ y.locked = x.locked /\ y.keys = x.keys
              \/ /\ ~x.changed /\ t < x.idle /\ t < x.ends /\ y.locked = x.locked /\ y.keys = x.keys /\ y.expired = x.expired
                 /\ y.shown = x.shown \/ y.shown \in {"idle", "absolute"}
  <1> DEFINE y == P!Ticked(x, t)
             remains == P!Least(x.idle, x.ends) - t
  <1>1. x.idle \in Nat /\ x.ends \in Nat
    BY DEF PageWatches
  <1>2. remains \in Int /\ (remains <= 0 <=> x.idle <= t \/ x.ends <= t)
    BY <1>1 DEF P!Least
  <1>3. y = IF x.changed THEN x
            ELSE IF remains <= 0 THEN IF x.shown # "expired" THEN P!Expire(x) ELSE [x EXCEPT !.expired = TRUE]
            ELSE IF remains > Warn THEN x
            ELSE IF ~(x.ends <= x.idle) THEN [x EXCEPT !.shown = "idle"]
            ELSE IF ~x.seen THEN [x EXCEPT !.shown = "absolute"]
            ELSE x
    BY DEF P!Ticked
  <1> HIDE DEF y, remains
  <1>4. CASE x.changed
    BY <1>3, <1>4 DEF y
  <1>5. CASE ~x.changed /\ remains <= 0 /\ x.shown # "expired"
    <2>1. y = P!Expire(x)
      BY <1>3, <1>5
    <2> QED BY <1>2, <1>5, <2>1, WatchExpire DEF y
  <1>6. CASE ~x.changed /\ remains <= 0 /\ x.shown = "expired"
    <2>1. y = [x EXCEPT !.expired = TRUE]
      BY <1>3, <1>6
    <2>2. /\ y \in PageWatches /\ y.idle = x.idle /\ y.ends = x.ends /\ y.of = x.of /\ y.changed = x.changed
          /\ y.shown = x.shown /\ y.expired = TRUE /\ y.locked = x.locked /\ y.keys = x.keys
      BY <2>1 DEF PageWatches
    <2> QED BY <1>2, <1>6, <2>2 DEF y
  <1>7. CASE ~x.changed /\ ~(remains <= 0)
    <2>1. y = x \/ y = [x EXCEPT !.shown = "idle"] \/ y = [x EXCEPT !.shown = "absolute"]
      BY <1>3, <1>7
    <2>2. /\ y \in PageWatches /\ y.idle = x.idle /\ y.ends = x.ends /\ y.of = x.of /\ y.changed = x.changed
          /\ (y.shown = x.shown \/ y.shown \in {"idle", "absolute"}) /\ y.expired = x.expired /\ y.locked = x.locked /\ y.keys = x.keys
      BY <2>1 DEF PageWatches
    <2>3. t < x.idle /\ t < x.ends
      BY <1>1, <1>2, <1>7
    <2> QED BY <1>7, <2>2, <2>3 DEF y
  <1> QED BY <1>4, <1>5, <1>6, <1>7

-----------------------------------------------------------------------------
\* What is there of the session afterwards: the same one, no older, or one just made.
Onwards ==
    /\ tokens <= tokens' /\ tokens' \in Nat
    /\ session' # None =>
         /\ session' \in PageSessions /\ session'.token <= tokens'
         /\ \/ /\ session # None /\ session'.token = session.token /\ session'.who = session.who /\ session'.ends = session.ends
               /\ session.slid <= session'.slid
            \/ tokens < session'.token /\ session'.slid = now

LEMMA OnwardsSame == ASSUME PageInv, UNCHANGED <<session, tokens>> PROVE Onwards
  <1>1. tokens \in Nat /\ (session # None => session \in PageSessions /\ session.slid \in Nat /\ session.token <= tokens)
    BY DEF PageInv, PageTypes, PageTokens, PageSessions
  <1> QED BY <1>1 DEF Onwards

\* A session a request was served in.
LEMMA Slides ==
    ASSUME PageInv, P!Alive
    PROVE  /\ session # None /\ P!Slid \in PageSessions /\ P!Slid.token = session.token /\ P!Slid.who = session.who
           /\ P!Slid.ends = session.ends /\ session.slid <= P!Slid.slid /\ now <= P!Slid.slid + PageSlide /\ now < P!Slid.slid + PageIdle
           /\ now < session.ends /\ P!Slid.token <= tokens
  <1>1. /\ session # None /\ session \in PageSessions /\ session.slid \in Nat /\ session.ends \in Nat /\ now \in Nat /\ session.token <= tokens
    BY DEF P!Alive, PageInv, PageTypes, PageTokens, PageSessions
  <1>2. now < session.slid + PageIdle /\ now < session.ends
    BY <1>1, PageConsts DEF P!Alive, P!EndOf, P!Least
  <1>3. CASE now - session.slid >= PageSlide
    <2>1. P!Slid = [session EXCEPT !.slid = now]
      BY <1>3 DEF P!Slid
    <2>2. /\ P!Slid \in PageSessions /\ P!Slid.token = session.token /\ P!Slid.who = session.who /\ P!Slid.ends = session.ends /\ P!Slid.slid = now
      BY <1>1, <2>1 DEF PageSessions
    <2> QED BY <1>1, <1>2, <1>3, <2>2, PageConsts
  <1>4. CASE ~(now - session.slid >= PageSlide)
    <2>1. P!Slid = session
      BY <1>4 DEF P!Slid
    <2> QED BY <1>1, <1>2, <1>4, <2>1, PageConsts
  <1> QED BY <1>3, <1>4

LEMMA OnwardsSlid == ASSUME PageInv, UNCHANGED tokens, P!Alive, session' = P!Slid PROVE Onwards
  <1>1. tokens \in Nat
    BY DEF PageInv, PageTypes
  <1> QED BY <1>1, Slides DEF Onwards

LEMMA OfTokenKept == ASSUME PageInv, Onwards, NEW token \in Nat, NEW who, OfToken(token, who, session, tokens) PROVE OfToken(token, who, session', tokens')
  <1>1. tokens \in Nat /\ tokens' \in Nat /\ tokens <= tokens' /\ token <= tokens
    BY DEF PageInv, PageTypes, Onwards, OfToken
  <1>2. CASE session' # None /\ session'.token = token
    <2>1. ~(tokens < session'.token)
      BY <1>1, <1>2
    <2>2. session # None /\ session'.token = session.token /\ session'.who = session.who
      BY <1>2, <2>1 DEF Onwards
    <2> QED BY <1>1, <1>2, <2>2 DEF OfToken
  <1>3. CASE ~(session' # None /\ session'.token = token)
    BY <1>1, <1>3 DEF OfToken
  <1> QED BY <1>2, <1>3

\* A session that was slid since `by` still is, or the one that is there was made after.
LEMMA SlidSinceKept == ASSUME PageInv, Onwards, NEW by \in Nat, by <= now, SlidSince(by, session) PROVE SlidSince(by, session')
  <1> SUFFICES ASSUME session' # None PROVE by <= session'.slid + PageSlide
    BY DEF SlidSince
  <1>1. session'.slid \in Nat /\ now \in Nat /\ PageSlide \in Nat
    BY PageConsts DEF Onwards, PageSessions, PageInv, PageTypes
  <1>2. CASE session # None /\ session.slid <= session'.slid
    <2>1. session.slid \in Nat
      BY <1>2 DEF PageInv, PageTypes, PageSessions
    <2> QED BY <1>1, <1>2, <2>1 DEF SlidSince
  <1>3. CASE session'.slid = now
    BY <1>1, <1>3
  <1> QED BY <1>2, <1>3 DEF Onwards

LEMMA ToldKept == ASSUME PageInv, Onwards, NEW g \in PageReply, NEW by \in Nat, by <= now, Told(g, by, session, tokens) PROVE Told(g, by, session', tokens')
  <1>1. g.token \in Nat /\ g.idle \in Nat /\ g.ends \in Nat
    BY DEF PageReply
  <1>2. OfToken(g.token, g.who, session', tokens')
    BY <1>1, OfTokenKept DEF Told
  <1>3. SlidSince(by, session')
    BY SlidSinceKept DEF Told
  <1>4. ASSUME session' # None, session'.token = g.token PROVE session'.ends = g.ends /\ g.idle <= session'.slid + PageIdle
    <2>1. g.token <= tokens /\ tokens \in Nat
      BY DEF Told, OfToken, PageInv, PageTypes
    <2>2. /\ session # None /\ session'.token = session.token /\ session'.ends = session.ends /\ session.slid <= session'.slid
          /\ session'.slid \in Nat
      BY <1>1, <1>4, <2>1 DEF Onwards, PageSessions
    <2>3. session.slid \in Nat /\ g.idle <= session.slid + PageIdle /\ session.ends = g.ends
      BY <1>4, <2>2 DEF Told, PageInv, PageTypes, PageSessions
    <2> QED BY <1>1, <2>2, <2>3, PageConsts
  <1> QED BY <1>2, <1>3, <1>4 DEF Told

LEMMA InTimeKept ==
    ASSUME PageInv, Onwards, NEW a, a.by \in Nat, a.got \in PageReply \cup {None}, InTime(a, now, session, tokens), now' \in Nat, now <= now', now' <= a.by + Lag
    PROVE  InTime(a, now', session', tokens')
  <1>1. now \in Nat /\ Lag \in Nat /\ a.by <= now
    BY PageConsts DEF PageInv, PageTypes, InTime
  <1>2. a.got # None => Told(a.got, a.by, session', tokens')
    BY <1>1, ToldKept DEF InTime
  <1>3. a.by <= now'
    BY <1>1
  <1> QED BY <1>2, <1>3 DEF InTime

\* What the server says of the session a request was served in.
LEMMA ToldNow ==
    ASSUME PageInv, P!Alive, session' = P!Slid, UNCHANGED <<tokens, now>>, NEW by \in Nat, by <= now
    PROVE  P!Profile(P!Slid) \in PageReply /\ Told(P!Profile(P!Slid), by, session', tokens')
  <1> DEFINE s == P!Slid
             g == P!Profile(P!Slid)
  <1>1. /\ s \in PageSessions /\ s.ends = session.ends /\ now <= s.slid + PageSlide /\ now < s.slid + PageIdle /\ now < session.ends /\ s.token <= tokens
    BY Slides
  <1>2. s.slid \in Nat /\ s.ends \in Nat /\ s.token \in Nat /\ s.who \in Who /\ now \in Nat
    BY <1>1 DEF PageSessions, PageInv, PageTypes
  <1>3. g = [who |-> s.who, token |-> s.token, idle |-> s.slid + PageIdle, ends |-> s.ends]
    BY DEF P!Profile
  <1> HIDE DEF s, g
  <1>4. g \in PageReply /\ g.who = s.who /\ g.token = s.token /\ g.idle = s.slid + PageIdle /\ g.ends = s.ends
    BY <1>2, <1>3, PageConsts DEF PageReply
  <1>5. session' = s
    BY DEF s
  <1>6. Told(g, by, session', tokens')
    <2>1. OfToken(g.token, g.who, session', tokens')
      BY <1>1, <1>4, <1>5 DEF OfToken
    <2>2. by < g.idle /\ by < g.ends /\ by <= s.slid + PageSlide
      BY <1>1, <1>2, <1>4, PageConsts
    <2>3. g.idle <= s.slid + PageIdle
      BY <1>2, <1>4, PageConsts
    <2> QED BY <1>4, <1>5, <2>1, <2>2, <2>3 DEF Told, SlidSince
  <1> QED BY <1>4, <1>6 DEF g

\* What is left in order of the watch when only the session moves on.
LEMMA WatchOnwards ==
    ASSUME PageInv, Onwards, UNCHANGED <<now, st, page>>
    PROVE  PageWatch' /\ PageDialog' /\ P!HiddenInTime' /\ P!KeysGone' /\ st'.of <= tokens' /\ (page' # None => OfToken(page.token, page.who, session', tokens'))
  <1>1. st \in PageWatches /\ st.of \in Nat /\ st.of <= tokens /\ tokens \in Nat /\ tokens' \in Nat /\ tokens <= tokens' /\ now \in Nat
        /\ st.idle \in Nat /\ st.ends \in Nat
    BY DEF PageInv, PageTypes, PageTokens, PageWatches, Onwards
  <1>2. ASSUME session' # None, session'.token = st.of
        PROVE  /\ session # None /\ session'.token = session.token /\ session'.ends = session.ends /\ session.slid <= session'.slid
               /\ session.slid \in Nat /\ session'.slid \in Nat /\ session.ends \in Nat
    BY <1>1, <1>2 DEF Onwards, PageSessions, PageInv, PageTypes
  <1>3. PageWatch'
    <2> SUFFICES ASSUME session' # None, session'.token = st.of PROVE st.ends = session'.ends /\ st.idle <= session'.slid + PageIdle + Lag
      BY DEF PageWatch
    <2>1. st.ends = session.ends /\ st.idle <= session.slid + PageIdle + Lag
      BY <1>2 DEF PageInv, PageWatch
    <2> QED BY <1>1, <1>2, <2>1, PageConsts
  <1>4. P!HiddenInTime'
    <2> SUFFICES ASSUME ~st.locked, session' # None, session'.token = st.of PROVE now < P!EndOf(session') + Lag
      BY DEF P!HiddenInTime, P!EndOf
    <2>1. now < P!EndOf(session) + Lag
      BY <1>2 DEF PageInv, P!HiddenInTime
    <2> QED BY <1>1, <1>2, <2>1, PageConsts DEF P!EndOf, P!Least
  <1>5. ASSUME page # None PROVE OfToken(page.token, page.who, session', tokens')
    <2>1. page.token \in Nat /\ OfToken(page.token, page.who, session, tokens)
      BY <1>5 DEF PageInv, PageTypes, PageTokens
    <2> QED BY <2>1, OfTokenKept
  <1> QED BY <1>1, <1>3, <1>4, <1>5 DEF PageInv, PageDialog, P!KeysGone

-----------------------------------------------------------------------------
\* What an action leaves of the requests to /me, and what one more of them is.
LEMMA AsksKept ==
    ASSUME PageInv, Onwards, UNCHANGED <<now, st>>, left.prompt' = left.prompt \/ left.prompt' = FALSE, DOMAIN asks' = Watches,
           \A w \in Watches : asks'[w] # None =>
              \/ asks'[w] = asks[w]
              \/ /\ asks'[w] \in PageAsks /\ InTime(asks'[w], now', session', tokens')
                 /\ (asks'[w].op = "stay" => (asks[w] # None /\ asks[w].op = "stay") \/ (left.prompt => ~st.locked))
    PROVE  /\ \A w \in Watches : asks'[w] # None => asks'[w] \in PageAsks
           /\ \A w \in Watches : asks'[w] # None => InTime(asks'[w], now', session', tokens')
           /\ PagePrompt'
  <1>1. ASSUME NEW w \in Watches, asks'[w] # None PROVE asks'[w] \in PageAsks /\ InTime(asks'[w], now', session', tokens')
    <2>1. CASE asks'[w] = asks[w]
      <3>1. asks[w] \in PageAsks /\ InTime(asks[w], now, session, tokens)
        BY <1>1, <2>1 DEF PageInv, PageTypes, PageAnswers
      <3>2. asks[w].by \in Nat /\ asks[w].got \in PageReply \cup {None} /\ now \in Nat /\ now' = now /\ now <= asks[w].by + Lag
        BY <3>1 DEF PageAsks, PageInv, PageTypes, InTime
      <3>3. InTime(asks[w], now', session', tokens')
        BY <3>1, <3>2, InTimeKept
      <3> QED BY <2>1, <3>1, <3>3
    <2> QED BY <1>1, <2>1
  <1>2. PagePrompt'
    BY DEF PageInv, PagePrompt
  <1> QED BY <1>1, <1>2

\* The invariant, part by part of the state.
BaseFits == now \in Nat /\ tokens \in Nat /\ left \in P!Plan /\ (session # None => session \in PageSessions /\ session.token <= tokens)
PageFits == page # None => page \in [who : Who, token : Nat] /\ OfToken(page.token, page.who, session, tokens)
WatchFits == st \in PageWatches /\ st.of <= tokens /\ PageWatch /\ PageDialog /\ P!HiddenInTime /\ P!KeysGone
AsksFit == DOMAIN asks = Watches /\ \A w \in Watches : asks[w] # None => asks[w] \in PageAsks /\ InTime(asks[w], now, session, tokens)
ChangeFits ==
    change # None => /\ change \in PageChanges
                     /\ OfToken(change.token, change.for, session, tokens) /\ (page # None => change.for = page.who)
                     /\ InTime(change, now, session, tokens) /\ (change.got # None => change.at = "told")
                     /\ change.at = "made" => SlidSince(change.by, session)

LEMMA PageApart == ASSUME PageInv PROVE BaseFits /\ PageFits /\ WatchFits /\ AsksFit /\ ChangeFits /\ PagePrompt /\ P!NeverForAnother
  BY DEF PageInv, PageTypes, PageTokens, PageAnswers, BaseFits, PageFits, WatchFits, AsksFit, ChangeFits

LEMMA PageTogether ==
    ASSUME BaseFits', PageFits', WatchFits', AsksFit', ChangeFits', PagePrompt', P!NeverForAnother'
    PROVE  PageInv'
  BY DEF PageInv, PageTypes, PageTokens, PageAnswers, BaseFits, PageFits, WatchFits, AsksFit, ChangeFits

LEMMA ChangeKept ==
    ASSUME PageInv, Onwards, UNCHANGED <<now, change>>, page' = page \/ page' = None \/ (page # None /\ page' # None /\ page'.who = page.who)
    PROVE  ChangeFits'
  <1> SUFFICES ASSUME change # None
               PROVE  /\ change \in PageChanges
                      /\ OfToken(change.token, change.for, session', tokens') /\ (page' # None => change.for = page'.who)
                      /\ InTime(change, now', session', tokens') /\ (change.got # None => change.at = "told")
                      /\ change.at = "made" => SlidSince(change.by, session')
    BY DEF ChangeFits
  <1>0. ChangeFits /\ now \in Nat
    BY PageApart DEF BaseFits
  <1>1. /\ change \in PageChanges /\ change.token \in Nat /\ change.by \in Nat /\ change.got \in PageReply \cup {None}
        /\ now \in Nat /\ change.by <= now /\ now <= change.by + Lag
    BY <1>0 DEF ChangeFits, InTime, PageChanges
  <1>2. OfToken(change.token, change.for, session', tokens')
    BY <1>0, <1>1, OfTokenKept DEF ChangeFits
  <1>3. InTime(change, now', session', tokens')
    BY <1>0, <1>1, InTimeKept DEF ChangeFits
  <1>4. change.at = "made" => SlidSince(change.by, session')
    BY <1>0, <1>1, SlidSinceKept DEF ChangeFits
  <1> QED BY <1>0, <1>1, <1>2, <1>3, <1>4 DEF ChangeFits

\* Only the session moves on, by another tab or as a request is served.
LEMMA PageSessionMoves ==
    ASSUME PageInv, Onwards, UNCHANGED <<now, st, page>>, left' \in P!Plan, left'.prompt = left.prompt, DOMAIN asks' = Watches,
           \A w \in Watches : asks'[w] # None =>
              \/ asks'[w] = asks[w]
              \/ /\ asks'[w] \in PageAsks /\ InTime(asks'[w], now', session', tokens')
                 /\ (asks'[w].op = "stay" => (asks[w] # None /\ asks[w].op = "stay") \/ (left.prompt => ~st.locked)),
           UNCHANGED change \/ ChangeFits', P!NeverForAnother'
    PROVE  PageInv'
  <1>1. BaseFits'
    BY PageApart DEF BaseFits, Onwards
  <1>2. WatchFits' /\ PageFits'
    BY PageApart, WatchOnwards DEF WatchFits, PageFits
  <1>3. AsksFit' /\ PagePrompt'
    BY AsksKept DEF AsksFit
  <1>4. ChangeFits'
    BY ChangeKept
  <1> QED BY <1>1, <1>2, <1>3, <1>4, PageTogether

\* Only the page's watch, or whom it acts for, moves on.
LEMMA PageWatchMoves ==
    ASSUME PageInv, UNCHANGED <<now, session, tokens>>, left' \in P!Plan, DOMAIN asks' = Watches, \A w \in Watches : asks'[w] \in {asks[w], None},
           WatchFits', PagePrompt', UNCHANGED done,
           \/ page' \in {page, None} /\ (UNCHANGED change \/ change' = None)
           \/ PageFits' /\ ChangeFits'
    PROVE  PageInv'
  <1>1. Onwards
    BY OnwardsSame
  <1>2. BaseFits' /\ PageFits'
    BY PageApart DEF BaseFits, PageFits
  <1>3. AsksFit'
    BY PageApart DEF AsksFit
  <1>4. ChangeFits'
    BY <1>1, ChangeKept DEF ChangeFits
  <1>5. P!NeverForAnother'
    BY PageApart DEF P!NeverForAnother
  <1> QED BY <1>2, <1>3, <1>4, <1>5, PageTogether

-----------------------------------------------------------------------------
LEMMA LeftOf ==
    ASSUME PageInv
    PROVE  /\ left \in P!Plan /\ left.others \in Nat /\ left.acts \in Nat /\ left.prompt \in BOOLEAN
           /\ left.others > 0 => [left EXCEPT !.others = @ - 1] \in P!Plan /\ [left EXCEPT !.others = @ - 1].prompt = left.prompt
           /\ left.acts > 0 => [left EXCEPT !.acts = @ - 1] \in P!Plan /\ [left EXCEPT !.acts = @ - 1].prompt = left.prompt
           /\ [left EXCEPT !.prompt = FALSE] \in P!Plan /\ [left EXCEPT !.prompt = FALSE].prompt = FALSE
  <1>1. left \in [others : Nat, acts : Nat, last : Nat, prompt : BOOLEAN]
    BY DEF PageInv, PageTypes, P!Plan
  <1>2. left.others > 0 => [left EXCEPT !.others = @ - 1] \in P!Plan /\ [left EXCEPT !.others = @ - 1].prompt = left.prompt
    BY <1>1 DEF P!Plan
  <1>3. left.acts > 0 => [left EXCEPT !.acts = @ - 1] \in P!Plan /\ [left EXCEPT !.acts = @ - 1].prompt = left.prompt
    BY <1>1 DEF P!Plan
  <1>4. [left EXCEPT !.prompt = FALSE] \in P!Plan /\ [left EXCEPT !.prompt = FALSE].prompt = FALSE
    BY <1>1 DEF P!Plan
  <1> QED BY <1>1, <1>2, <1>3, <1>4 DEF P!Plan

LEMMA OthersStep == ASSUME PageInv, Onwards, P!Others PROVE PageInv'
  <1>1. UNCHANGED <<now, page, st, asks, change, done>> /\ left' \in P!Plan /\ left'.prompt = left.prompt
    BY LeftOf DEF P!Others
  <1>2. DOMAIN asks' = Watches
    BY <1>1 DEF PageInv, PageTypes
  <1>3. P!NeverForAnother'
    BY <1>1 DEF PageInv, P!NeverForAnother
  <1> QED BY <1>1, <1>2, <1>3, PageSessionMoves

LEMMA PageSignInStep == ASSUME PageInv, NEW w \in Who, P!SignIn(w) PROVE PageInv'
  <1>1. P!Others /\ tokens' = tokens + 1 /\ session' = [who |-> w, token |-> tokens + 1, slid |-> now, ends |-> now + PageAbs]
    BY DEF P!SignIn, P!Fresh
  <1>2. tokens \in Nat /\ now \in Nat
    BY DEF PageInv, PageTypes
  <1>3. session' \in PageSessions /\ session'.token = tokens + 1 /\ session'.slid = now
    BY <1>1, <1>2, PageConsts DEF PageSessions
  <1>4. Onwards
    BY <1>1, <1>2, <1>3 DEF Onwards
  <1> QED BY <1>1, <1>4, OthersStep

LEMMA PageSignOutStep == ASSUME PageInv, P!SignOut PROVE PageInv'
  <1>1. Onwards
    BY DEF P!SignOut, Onwards, PageInv, PageTypes
  <1> QED BY <1>1, OthersStep DEF P!SignOut

LEMMA UsedElsewhereStep == ASSUME PageInv, P!UsedElsewhere PROVE PageInv'
  BY OnwardsSlid, OthersStep DEF P!UsedElsewhere

LEMMA AnswerMeStep == ASSUME PageInv, NEW w \in Watches, P!AnswerMe(w) PROVE PageInv'
  <1> DEFINE a == asks[w]
             g == IF P!Alive THEN P!Profile(P!Slid) ELSE None
             b == [a EXCEPT !.at = "answered", !.got = g]
  <1>1. /\ a # None /\ asks' = [asks EXCEPT ![w] = b] /\ session' = (IF P!Alive THEN P!Slid ELSE session)
        /\ UNCHANGED <<left, now, tokens, page, st, change, done>>
    BY DEF P!AnswerMe
  <1>2. a \in PageAsks /\ InTime(a, now, session, tokens) /\ DOMAIN asks = Watches
    BY <1>1, PageApart DEF AsksFit
  <1>3. a.by \in Nat /\ a.by <= now /\ now <= a.by + Lag /\ a.op \in {"stay", "recheck"}
    BY <1>2 DEF PageAsks, InTime
  <1>4. Onwards
    BY <1>1, OnwardsSlid, OnwardsSame
  <1>5. g # None => g \in PageReply /\ Told(g, a.by, session', tokens')
    BY <1>1, <1>3, ToldNow
  <1> HIDE DEF g
  <1>6. b \in PageAsks /\ b.by = a.by /\ b.got = g /\ b.op = a.op
    BY <1>2, <1>5 DEF PageAsks
  <1> HIDE DEF b
  <1>7. InTime(b, now', session', tokens')
    BY <1>1, <1>3, <1>5, <1>6 DEF InTime
  <1>8. b.op = "stay" => asks[w] # None /\ asks[w].op = "stay"
    BY <1>1, <1>6
  <1>9. DOMAIN asks' = Watches /\ asks'[w] = b /\ \A v \in Watches \ {w} : asks'[v] = asks[v]
    BY <1>1, <1>2
  <1>10. \A v \in Watches : asks'[v] # None =>
              \/ asks'[v] = asks[v]
              \/ /\ asks'[v] \in PageAsks /\ InTime(asks'[v], now', session', tokens')
                 /\ (asks'[v].op = "stay" => (asks[v] # None /\ asks[v].op = "stay") \/ (left.prompt => ~st.locked))
    BY <1>6, <1>7, <1>8, <1>9
  <1>11. P!NeverForAnother' /\ left' \in P!Plan /\ left'.prompt = left.prompt
    BY <1>1, LeftOf, PageApart DEF P!NeverForAnother
  <1> QED BY <1>1, <1>4, <1>9, <1>10, <1>11, PageSessionMoves

\* One more request of the page.
AskedNow(w, op) == [op |-> op, at |-> "sent", by |-> now, got |-> None]
LEMMA SentStep ==
    ASSUME PageInv, NEW w \in Watches, NEW op \in {"stay", "recheck"}, P!Acts, P!Sent(w, op), op = "stay" => (left.prompt => ~st.locked),
           UNCHANGED <<page, st, change>>
    PROVE  PageInv'
  <1> DEFINE b == AskedNow(w, op)
  <1>1. /\ left' \in P!Plan /\ left'.prompt = left.prompt /\ UNCHANGED <<now, session, tokens, done, page, st, change>>
        /\ asks' = [asks EXCEPT ![w] = b]
    BY LeftOf DEF P!Acts, P!Sent, AskedNow
  <1>2. now \in Nat /\ DOMAIN asks = Watches
    BY DEF PageInv, PageTypes
  <1>3. b \in PageAsks /\ b.by = now /\ b.got = None /\ b.op = op
    BY <1>2 DEF AskedNow, PageAsks
  <1> HIDE DEF b
  <1>4. InTime(b, now', session', tokens')
    BY <1>1, <1>2, <1>3, PageConsts DEF InTime
  <1>5. DOMAIN asks' = Watches /\ asks'[w] = b /\ \A v \in Watches \ {w} : asks'[v] = asks[v]
    BY <1>1, <1>2
  <1>6. \A v \in Watches : asks'[v] # None =>
              \/ asks'[v] = asks[v]
              \/ /\ asks'[v] \in PageAsks /\ InTime(asks'[v], now', session', tokens')
                 /\ (asks'[v].op = "stay" => (asks[v] # None /\ asks[v].op = "stay") \/ (left.prompt => ~st.locked))
    BY <1>3, <1>4, <1>5
  <1>7. P!NeverForAnother' /\ Onwards
    BY <1>1, PageApart, OnwardsSame DEF P!NeverForAnother
  <1> QED BY <1>1, <1>5, <1>6, <1>7, PageSessionMoves

LEMMA StayStep == ASSUME PageInv, NEW w \in Watches, P!Stay(w) PROVE PageInv'
  <1>1. st.shown = "idle" /\ P!Acts /\ P!Sent(w, "stay") /\ UNCHANGED <<page, st, change>>
    BY DEF P!Stay
  <1>2. left.prompt => ~st.locked
    BY <1>1 DEF PageInv, PagePrompt, PageDialog
  <1> QED BY <1>1, <1>2, SentStep

LEMMA RecheckStep == ASSUME PageInv, NEW w \in Watches, P!Recheck(w) PROVE PageInv'
  BY SentStep DEF P!Recheck

LEMMA ChangeStep == ASSUME PageInv, P!Change PROVE PageInv'
  <1> DEFINE c == [at |-> "sent", for |-> page.who, token |-> page.token, again |-> FALSE, by |-> now, got |-> None]
  <1>1. /\ page # None /\ UNCHANGED <<page, st, asks, now, session, tokens, done>> /\ left' \in P!Plan /\ left'.prompt = left.prompt
        /\ change' = c
    BY LeftOf DEF P!Change, P!Acts
  <1>2. page.who \in Who /\ page.token \in Nat /\ now \in Nat /\ OfToken(page.token, page.who, session, tokens) /\ DOMAIN asks = Watches
    BY <1>1 DEF PageInv, PageTypes, PageTokens
  <1>3. c \in PageChanges /\ c.for = page.who /\ c.token = page.token /\ c.by = now /\ c.got = None /\ c.at = "sent"
    BY <1>2 DEF PageChanges
  <1> HIDE DEF c
  <1>4. InTime(c, now', session', tokens')
    BY <1>1, <1>2, <1>3, PageConsts DEF InTime
  <1>5. ChangeFits'
    BY <1>1, <1>2, <1>3, <1>4 DEF ChangeFits
  <1>6. P!NeverForAnother' /\ Onwards
    BY <1>1, PageApart, OnwardsSame DEF P!NeverForAnother
  <1> QED BY <1>1, <1>2, <1>5, <1>6, PageSessionMoves

\* A change is served for whom it was made, for it has that one's token.
LEMMA ServeStep == ASSUME PageInv, P!Serve PROVE PageInv'
  <1> DEFINE c == change
             asked == c.at = "asking"
             ours == P!Alive /\ (asked \/ c.token = session.token)
             at == IF asked THEN "told" ELSE IF ours THEN "made" ELSE IF P!Alive THEN "mismatch" ELSE "signed out"
             g == IF asked /\ P!Alive THEN P!Profile(P!Slid) ELSE None
             d == [c EXCEPT !.at = at, !.got = g]
  <1>1. /\ c # None /\ UNCHANGED <<left, now, tokens, page, st, asks>> /\ session' = (IF ours THEN P!Slid ELSE session)
        /\ done' = (IF ours /\ ~asked THEN done \cup {[for |-> c.for, on |-> session.who]} ELSE done)
        /\ change' = d
    BY DEF P!Serve
  <1>2. ChangeFits /\ c \in PageChanges /\ now \in Nat
    BY <1>1, PageApart DEF ChangeFits, BaseFits
  <1>3. /\ c.token \in Nat /\ c.by \in Nat /\ c.by <= now /\ now <= c.by + Lag /\ OfToken(c.token, c.for, session, tokens)
        /\ (page # None => c.for = page.who)
    BY <1>1, <1>2 DEF ChangeFits, InTime, PageChanges
  <1>4. Onwards /\ OfToken(c.token, c.for, session', tokens')
    <2>1. Onwards
      BY <1>1, OnwardsSlid, OnwardsSame
    <2> QED BY <1>3, <2>1, OfTokenKept
  <1>5. g # None => g \in PageReply /\ Told(g, c.by, session', tokens') /\ at = "told"
    BY <1>1, <1>3, ToldNow
  <1>6. at \in {"made", "mismatch", "signed out", "told"} /\ (at = "made" => ours)
    OBVIOUS
  <1>7. at = "made" => SlidSince(c.by, session')
    <2>1. ours => now <= P!Slid.slid + PageSlide /\ P!Slid.slid \in Nat
      BY Slides DEF PageSessions
    <2> QED BY <1>1, <1>2, <1>3, <1>6, <2>1, PageConsts DEF SlidSince
  <1>8. ours /\ ~asked => session.who = c.for
    BY <1>3 DEF OfToken, P!Alive
  <1>9. P!NeverForAnother'
    BY <1>1, <1>8, PageApart DEF P!NeverForAnother
  <1> HIDE DEF at, g, ours, asked
  <1>10. d \in PageChanges /\ d.at = at /\ d.got = g /\ d.by = c.by /\ d.token = c.token /\ d.for = c.for
    BY <1>2, <1>5, <1>6 DEF PageChanges
  <1> HIDE DEF d, c
  <1>11. InTime(d, now', session', tokens')
    BY <1>1, <1>3, <1>5, <1>10 DEF InTime
  <1>12. ChangeFits'
    BY <1>1, <1>3, <1>4, <1>5, <1>7, <1>10, <1>11 DEF ChangeFits
  <1>13. DOMAIN asks' = Watches /\ left' \in P!Plan /\ left'.prompt = left.prompt /\ UNCHANGED <<now, st, page>> /\ \A w \in Watches : asks'[w] = asks[w]
    BY <1>1, LeftOf DEF PageInv, PageTypes
  <1> QED BY <1>4, <1>9, <1>12, <1>13, PageSessionMoves

-----------------------------------------------------------------------------
\* What keeps the watch in order while it is over the same session.
LEMMA WatchOf ==
    ASSUME PageInv, UNCHANGED <<now, session, tokens>>, st' \in PageWatches, st'.of = st.of, st'.ends = st.ends, st.locked => st'.locked,
           session # None /\ session.token = st.of => st'.idle <= session.slid + PageIdle + Lag, PageDialog', P!KeysGone'
    PROVE  WatchFits'
  <1>1. WatchFits
    BY PageApart
  <1>2. P!HiddenInTime'
    BY <1>1 DEF WatchFits, P!HiddenInTime, P!EndOf
  <1>3. PageWatch'
    BY <1>1 DEF WatchFits, PageWatch
  <1> QED BY <1>1, <1>2, <1>3 DEF WatchFits

\* After a request that succeeded.
LEMMA WatchActiveOf ==
    ASSUME PageInv, NEW by \in Nat, now <= by + Lag, SlidSince(by, session)
    PROVE  session # None /\ session.token = st.of => P!Active(st).idle <= session.slid + PageIdle + Lag
  <1> SUFFICES ASSUME session # None, session.token = st.of PROVE P!Active(st).idle <= session.slid + PageIdle + Lag
    OBVIOUS
  <1>1. st \in PageWatches /\ now \in Nat /\ session.slid \in Nat /\ st.idle <= session.slid + PageIdle + Lag /\ st.idle \in Nat
    BY DEF PageInv, PageTypes, PageWatch, PageSessions, PageWatches
  <1>2. P!Active(st).idle <= st.idle \/ P!Active(st).idle <= now + PageIdle - PageSlide
    BY <1>1, WatchActive
  <1>3. P!Active(st).idle \in Nat
    BY <1>1, WatchActive DEF PageWatches
  <1>4. by <= session.slid + PageSlide
    BY DEF SlidSince
  <1> QED BY <1>1, <1>2, <1>3, <1>4, PageConsts

LEMMA DismissStep == ASSUME PageInv, P!Dismiss PROVE PageInv'
  <1>1. /\ st.shown = "absolute" /\ st' = [st EXCEPT !.seen = TRUE, !.shown = None] /\ UNCHANGED <<page, asks, change, now, session, tokens, done>>
        /\ left' \in P!Plan /\ left'.prompt = left.prompt
    BY LeftOf DEF P!Dismiss, P!Acts
  <1>2. WatchFits /\ PagePrompt /\ DOMAIN asks = Watches
    BY PageApart DEF AsksFit
  <1>3. /\ st' \in PageWatches /\ st'.of = st.of /\ st'.ends = st.ends /\ st'.idle = st.idle /\ st'.locked = st.locked /\ st'.changed = st.changed
        /\ st'.expired = st.expired /\ st'.keys = st.keys /\ st'.shown = None
    BY <1>1, <1>2 DEF WatchFits, PageWatches
  <1>4. PageDialog' /\ P!KeysGone'
    BY <1>1, <1>2, <1>3, PageConsts DEF WatchFits, PageDialog, P!KeysGone
  <1>5. session # None /\ session.token = st.of => st'.idle <= session.slid + PageIdle + Lag
    BY <1>2, <1>3 DEF WatchFits, PageWatch
  <1>6. WatchFits'
    BY <1>1, <1>3, <1>4, <1>5, WatchOf
  <1>7. PagePrompt'
    BY <1>1, <1>2, <1>3 DEF PagePrompt
  <1> QED BY <1>1, <1>2, <1>6, <1>7, PageWatchMoves

LEMMA OpenDriveStep == ASSUME PageInv, P!OpenDrive PROVE PageInv'
  <1>1. /\ page # None /\ ~st.locked /\ st' = [st EXCEPT !.keys = TRUE] /\ UNCHANGED <<page, asks, change, now, session, tokens, done>>
        /\ left' \in P!Plan /\ left'.prompt = left.prompt
    BY LeftOf DEF P!OpenDrive, P!Acts
  <1>2. WatchFits /\ PagePrompt /\ DOMAIN asks = Watches
    BY PageApart DEF AsksFit
  <1>3. /\ st' \in PageWatches /\ st'.of = st.of /\ st'.ends = st.ends /\ st'.idle = st.idle /\ st'.locked = st.locked /\ st'.changed = st.changed
        /\ st'.expired = st.expired /\ st'.shown = st.shown
    BY <1>1, <1>2 DEF WatchFits, PageWatches
  <1>4. PageDialog' /\ P!KeysGone'
    BY <1>1, <1>2, <1>3 DEF WatchFits, PageDialog, P!KeysGone
  <1>5. session # None /\ session.token = st.of => st'.idle <= session.slid + PageIdle + Lag
    BY <1>2, <1>3 DEF WatchFits, PageWatch
  <1>6. WatchFits'
    BY <1>1, <1>3, <1>4, <1>5, WatchOf
  <1>7. PagePrompt'
    BY <1>1, <1>2, <1>3 DEF PagePrompt
  <1> QED BY <1>1, <1>2, <1>6, <1>7, PageWatchMoves

\* The page takes over what an answer says of its own user's session.
LEMMA Adopted ==
    ASSUME PageInv, UNCHANGED <<now, session, tokens>>, NEW g \in PageReply, NEW by \in Nat, now <= by + Lag, Told(g, by, session, tokens),
           st' \in PageWatches, st'.of = g.token, st'.idle = g.idle, st'.ends = g.ends, st'.changed = FALSE, st'.shown = None, P!KeysGone'
    PROVE  WatchFits'
  <1>1. g.idle \in Nat /\ g.ends \in Nat /\ g.token \in Nat /\ now \in Nat
    BY DEF PageReply, PageInv, PageTypes
  <1>2. st'.of <= tokens'
    BY DEF Told, OfToken
  <1>3. ASSUME session # None, session.token = g.token
        PROVE  /\ session.slid \in Nat /\ session.ends \in Nat /\ session.ends = g.ends /\ g.idle <= session.slid + PageIdle /\ by < g.idle /\ by < g.ends
    BY <1>3 DEF Told, PageInv, PageTypes, PageSessions
  <1>4. PageWatch'
    BY <1>1, <1>3, PageConsts DEF PageWatch
  <1>5. P!HiddenInTime'
    <2> SUFFICES ASSUME session # None, session.token = g.token PROVE now < P!EndOf(session) + Lag
      BY DEF P!HiddenInTime, P!EndOf
    <2> QED BY <1>1, <1>3, PageConsts DEF P!EndOf, P!Least
  <1>6. PageDialog'
    BY PageConsts DEF PageDialog
  <1> QED BY <1>2, <1>4, <1>5, <1>6 DEF WatchFits

\* An answer to /me.
LEMMA AnsweredStep == ASSUME PageInv, NEW w \in Watches, P!Answered(w) PROVE PageInv'
  <1> DEFINE a == asks[w]
             same == a.got # None /\ P!IsPageSession(a.got)
             x == IF a.got # None THEN P!Active(st) ELSE st
  <1>1. /\ a # None /\ asks' = [asks EXCEPT ![w] = None]
        /\ st' = (IF a.got = None THEN IF a.op = "stay" THEN P!Expire(x) ELSE x
                  ELSE IF ~same THEN P!SessionChanged(x)
                  ELSE IF a.op = "stay" THEN P!Closed(P!Adopt(x, a.got))
                  ELSE P!Closed([P!Adopt(x, a.got) EXCEPT !.locked = FALSE]))
        /\ page' = (IF a.got # None /\ ~same THEN None ELSE page)
        /\ left' = (IF a.op = "stay" /\ a.got = None THEN [left EXCEPT !.prompt = FALSE] ELSE left)
        /\ UNCHANGED <<now, session, tokens, change, done>>
    BY DEF P!Answered
  <1>2. WatchFits /\ PagePrompt /\ AsksFit /\ PageDialog /\ P!KeysGone /\ st \in PageWatches /\ now \in Nat
    BY PageApart DEF WatchFits, BaseFits
  <1>3. a \in PageAsks /\ InTime(a, now, session, tokens)
    BY <1>1, <1>2 DEF AsksFit
  <1>4. a.by \in Nat /\ now <= a.by + Lag /\ (a.got # None => a.got \in PageReply /\ Told(a.got, a.by, session, tokens)) /\ a.op \in {"stay", "recheck"}
    BY <1>3 DEF PageAsks, InTime
  <1>5. DOMAIN asks' = Watches /\ (\A v \in Watches : asks'[v] \in {asks[v], None}) /\ left' \in P!Plan /\ page' \in {page, None}
    BY <1>1, <1>2, LeftOf DEF AsksFit
  <1>6. left'.prompt => left.prompt
    BY <1>1, LeftOf
  <1> HIDE DEF a
  <1>7. WatchFits' /\ PagePrompt'
    <2>1. CASE a.got = None /\ a.op = "stay"
      <3>1. st' = P!Expire(st) /\ left'.prompt = FALSE /\ page' = page
        BY <1>1, <2>1, LeftOf
      <3>2. /\ st' \in PageWatches /\ st'.shown = "expired" /\ st'.idle = st.idle /\ st'.ends = st.ends /\ st'.expired = TRUE /\ st'.locked = TRUE
            /\ st'.changed = st.changed /\ (st'.keys => st.locked /\ st.keys) /\ st'.of = st.of
        BY <1>2, <3>1, WatchExpire
      <3>3. PageDialog' /\ P!KeysGone'
        BY <1>2, <3>1, <3>2 DEF PageDialog, P!KeysGone
      <3>4. session # None /\ session.token = st.of => st'.idle <= session.slid + PageIdle + Lag
        BY <1>2, <3>2 DEF WatchFits, PageWatch
      <3> QED BY <1>1, <3>1, <3>2, <3>3, <3>4, WatchOf DEF PagePrompt
    <2>2. CASE a.got = None /\ a.op # "stay"
      <3>1. st' = st /\ page' = page /\ left' = left
        BY <1>1, <2>2
      <3>2. PagePrompt'
        BY <1>1, <1>2, <1>5, <3>1 DEF PagePrompt
      <3> QED BY <1>1, <1>2, <3>1, <3>2 DEF WatchFits, PageWatch, PageDialog, P!HiddenInTime, P!KeysGone, P!EndOf
    <2>3. CASE a.got # None /\ ~same
      <3>1. st' = P!SessionChanged(P!Active(st)) /\ page' = None
        BY <1>1, <2>3
      <3>2. P!Active(st) \in PageWatches /\ P!Active(st).of = st.of /\ P!Active(st).ends = st.ends
        BY <1>2, WatchActive
      <3>3. /\ st' \in PageWatches /\ st'.shown = None /\ st'.idle = P!Active(st).idle /\ st'.ends = st.ends /\ st'.expired = TRUE /\ st'.locked = TRUE
            /\ st'.changed = TRUE /\ st'.keys = FALSE /\ st'.of = st.of
        BY <3>1, <3>2, WatchChanged
      <3>4. PageDialog' /\ P!KeysGone' /\ PagePrompt'
        BY <3>1, <3>3, PageConsts DEF PageDialog, P!KeysGone, PagePrompt
      <3>5. session # None /\ session.token = st.of => st'.idle <= session.slid + PageIdle + Lag
        BY <1>4, <2>3, <3>3, WatchActiveOf DEF Told
      <3> QED BY <1>1, <3>3, <3>4, <3>5, WatchOf
    <2>4. CASE same
      <3>1. a.got # None /\ page # None /\ page' = page /\ left' = left /\ ~st.changed
        BY <1>1, <1>2, <2>4 DEF P!IsPageSession, PageDialog
      <3> DEFINE y == P!Active(st)
                 z == P!Adopt(y, a.got)
      <3>2. y \in PageWatches /\ y.locked = st.locked /\ y.keys = st.keys /\ y.changed = st.changed
        BY <1>2, WatchActive
      <3>3. /\ z \in PageWatches /\ z.idle = a.got.idle /\ z.ends = a.got.ends /\ z.locked = st.locked /\ z.changed = st.changed
            /\ z.keys = st.keys /\ z.of = a.got.token
        BY <1>4, <3>1, <3>2, WatchAdopt
      <3>4. st' = P!Closed(z) \/ st' = P!Closed([z EXCEPT !.locked = FALSE])
        BY <1>1, <2>4, <3>1
      <3>5. a.op = "stay" => st' = P!Closed(z)
        BY <1>1, <2>4, <3>1
      <3>6. a.op # "stay" => st' = P!Closed([z EXCEPT !.locked = FALSE])
        BY <1>1, <2>4, <3>1
      <3> HIDE DEF y, z
      <3>7. [z EXCEPT !.locked = FALSE] \in PageWatches /\ [z EXCEPT !.locked = FALSE].idle = z.idle /\ [z EXCEPT !.locked = FALSE].ends = z.ends
            /\ [z EXCEPT !.locked = FALSE].locked = FALSE /\ [z EXCEPT !.locked = FALSE].changed = z.changed
            /\ [z EXCEPT !.locked = FALSE].keys = z.keys /\ [z EXCEPT !.locked = FALSE].of = z.of
        BY <3>3 DEF PageWatches
      <3>8. /\ st' \in PageWatches /\ st'.shown = None /\ st'.idle = a.got.idle /\ st'.ends = a.got.ends /\ st'.of = a.got.token
            /\ st'.changed = FALSE /\ st'.keys = st.keys /\ (st'.locked => st.locked /\ a.op = "stay")
        <4>1. CASE a.op = "stay"
          BY <3>1, <3>3, <3>5, <4>1, WatchClosed DEF PageWatches
        <4>2. CASE a.op # "stay"
          BY <3>1, <3>3, <3>6, <3>7, <4>2, WatchClosed DEF PageWatches
        <4> QED BY <4>1, <4>2
      <3>9. P!KeysGone'
        BY <1>2, <3>1, <3>8 DEF P!KeysGone
      <3>10. left.prompt => ~st'.locked
        BY <1>1, <1>2, <3>1, <3>8 DEF PagePrompt, a
      <3>11. PagePrompt'
        BY <3>1, <3>10 DEF PagePrompt
      <3> QED BY <1>1, <1>4, <3>1, <3>8, <3>9, <3>11, Adopted
    <2> QED BY <2>1, <2>2, <2>3, <2>4
  <1> QED BY <1>1, <1>5, <1>7, PageWatchMoves

\* What comes back of a change.
LEMMA BackStep == ASSUME PageInv, P!Back PROVE PageInv'
  <1> DEFINE c == change
             g == c.got
             d1 == [c EXCEPT !.at = "asking", !.by = now]
             d2 == [c EXCEPT !.at = "sent", !.token = g.token, !.again = TRUE, !.by = now, !.got = None]
  <1>1. /\ c # None /\ UNCHANGED <<left, now, session, tokens, asks, done>>
        /\ \/ c.at = "made" /\ st' = P!Active(st) /\ change' = None /\ UNCHANGED page
           \/ c.at = "mismatch" /\ change' = d1 /\ UNCHANGED <<page, st>>
           \/ P!Stops
           \/ g # None /\ P!IsPageSession(g) /\ page' = [page EXCEPT !.token = g.token] /\ st' = P!Active(st) /\ change' = d2
           \/ change' = None /\ UNCHANGED <<page, st>>
    BY DEF P!Back
  <1>2. WatchFits /\ PagePrompt /\ AsksFit /\ PageDialog /\ P!KeysGone /\ st \in PageWatches /\ now \in Nat /\ ChangeFits /\ PageFits
    BY PageApart DEF WatchFits, BaseFits
  <1>3. c \in PageChanges /\ InTime(c, now, session, tokens) /\ (g # None => c.at = "told") /\ (c.at = "made" => SlidSince(c.by, session))
        /\ OfToken(c.token, c.for, session, tokens) /\ (page # None => c.for = page.who)
    BY <1>1, <1>2 DEF ChangeFits
  <1>4. c.by \in Nat /\ now <= c.by + Lag /\ c.for \in Who /\ (g # None => g \in PageReply /\ Told(g, c.by, session, tokens))
    BY <1>3 DEF PageChanges, InTime
  <1>5. DOMAIN asks' = Watches /\ left' \in P!Plan /\ \A w \in Watches : asks'[w] \in {asks[w], None}
    BY <1>1, <1>2, LeftOf DEF AsksFit
  <1>6. ASSUME UNCHANGED st, page' = page PROVE WatchFits' /\ PagePrompt'
    BY <1>1, <1>2, <1>6 DEF WatchFits, PageWatch, PageDialog, P!HiddenInTime, P!KeysGone, P!EndOf, PagePrompt
  <1>7. ASSUME st' = P!Active(st), SlidSince(c.by, session), page' = None <=> page = None PROVE WatchFits' /\ PagePrompt'
    <2>1. /\ st' \in PageWatches /\ (st.expired => st' = st) /\ (st'.shown = st.shown \/ st'.shown = None)
          /\ st'.ends = st.ends /\ st'.expired = st.expired /\ st'.locked = st.locked
          /\ st'.changed = st.changed /\ st'.keys = st.keys /\ st'.of = st.of
      BY <1>2, <1>7, WatchActive
    <2>2. PageDialog' /\ P!KeysGone'
      BY <1>2, <1>7, <2>1, PageConsts DEF PageDialog, P!KeysGone
    <2>3. session # None /\ session.token = st.of => st'.idle <= session.slid + PageIdle + Lag
      BY <1>4, <1>7, WatchActiveOf
    <2>4. WatchFits'
      BY <1>1, <2>1, <2>2, <2>3, WatchOf
    <2>5. PagePrompt'
      BY <1>1, <1>2, <2>1 DEF PagePrompt
    <2> QED BY <2>4, <2>5
  <1>8. CASE c.at = "made" /\ st' = P!Active(st) /\ change' = None /\ UNCHANGED page
    BY <1>1, <1>3, <1>5, <1>7, <1>8, PageWatchMoves
  <1>9. CASE c.at = "mismatch" /\ change' = d1 /\ UNCHANGED <<page, st>>
    <2>1. d1 \in PageChanges /\ d1.at = "asking" /\ d1.by = now /\ d1.got = None /\ d1.token = c.token /\ d1.for = c.for
      BY <1>2, <1>3, <1>9 DEF PageChanges
    <2> HIDE DEF d1
    <2>2. ChangeFits'
      BY <1>1, <1>2, <1>3, <1>9, <2>1, PageConsts DEF ChangeFits, InTime
    <2>3. PageFits'
      BY <1>1, <1>2, <1>9 DEF PageFits
    <2> QED BY <1>1, <1>5, <1>6, <1>9, <2>2, <2>3, PageWatchMoves
  <1>10. CASE P!Stops
    <2>1. page' = None /\ st' = [st EXCEPT !.keys = FALSE] /\ change' = None
      BY <1>10 DEF P!Stops
    <2>2. /\ st' \in PageWatches /\ st'.of = st.of /\ st'.ends = st.ends /\ st'.idle = st.idle /\ st'.locked = st.locked /\ st'.changed = st.changed
          /\ st'.expired = st.expired /\ st'.shown = st.shown /\ st'.keys = FALSE
      BY <1>2, <2>1 DEF PageWatches
    <2>3. PageDialog' /\ P!KeysGone'
      BY <1>2, <2>1, <2>2 DEF PageDialog, P!KeysGone
    <2>4. session # None /\ session.token = st.of => st'.idle <= session.slid + PageIdle + Lag
      BY <1>2, <2>2 DEF WatchFits, PageWatch
    <2>5. WatchFits'
      BY <1>1, <2>2, <2>3, <2>4, WatchOf
    <2>6. PagePrompt'
      BY <1>1, <1>2, <2>2 DEF PagePrompt
    <2> QED BY <1>1, <1>5, <2>1, <2>5, <2>6, PageWatchMoves
  <1>11. CASE g # None /\ P!IsPageSession(g) /\ page' = [page EXCEPT !.token = g.token] /\ st' = P!Active(st) /\ change' = d2
    <2>1. page # None /\ g.who = page.who /\ page \in [who : Who, token : Nat] /\ g.token \in Nat
      BY <1>2, <1>4, <1>11 DEF P!IsPageSession, PageFits, PageReply
    <2>2. page' \in [who : Who, token : Nat] /\ page'.who = page.who /\ page'.token = g.token
      BY <1>11, <2>1
    <2>3. page' # None
      BY <2>2, PageConsts
    <2>4. OfToken(g.token, g.who, session, tokens) /\ SlidSince(c.by, session)
      BY <1>4, <1>11 DEF Told
    <2>5. PageFits'
      BY <1>1, <2>1, <2>2, <2>4 DEF PageFits
    <2>6. d2 \in PageChanges /\ d2.at = "sent" /\ d2.by = now /\ d2.got = None /\ d2.token = g.token /\ d2.for = c.for
      BY <1>2, <1>3, <2>1 DEF PageChanges
    <2> HIDE DEF d2, g
    <2>7. ChangeFits'
      BY <1>1, <1>2, <1>3, <1>11, <2>1, <2>2, <2>4, <2>6, PageConsts DEF ChangeFits, InTime
    <2>8. WatchFits' /\ PagePrompt'
      BY <1>7, <1>11, <2>1, <2>3, <2>4
    <2> QED BY <1>1, <1>5, <2>5, <2>7, <2>8, PageWatchMoves
  <1>12. CASE change' = None /\ UNCHANGED <<page, st>>
    BY <1>1, <1>5, <1>6, <1>12, PageWatchMoves
  <1> QED BY <1>1, <1>8, <1>9, <1>10, <1>11, <1>12

LEMMA PageTickStep == ASSUME PageInv, P!Tick PROVE PageInv'
  <1>1. /\ now' = now + 1 /\ st' = P!Ticked(st, now + 1)
        /\ \A w \in Watches : asks[w] # None =>
              now < asks[w].by + Lag /\ (left.prompt /\ asks[w].op = "stay" => now + 1 < P!Least(st.idle, st.ends))
        /\ change # None => now < change.by + Lag
        /\ UNCHANGED <<left, session, tokens, page, asks, change, done>>
    BY DEF P!Tick
  <1>2. /\ BaseFits /\ WatchFits /\ PagePrompt /\ AsksFit /\ PageDialog /\ P!KeysGone /\ st \in PageWatches /\ now \in Nat /\ ChangeFits /\ PageFits
        /\ st.idle \in Nat /\ st.ends \in Nat
    BY PageApart DEF WatchFits, BaseFits, PageWatches
  <1> DEFINE t == now + 1
             y == P!Ticked(st, t)
  <1>3. t \in Nat /\ now' = t /\ st' = y /\ t = now + 1
    BY <1>1, <1>2
  <1>4. /\ y \in PageWatches /\ y.idle = st.idle /\ y.ends = st.ends /\ y.of = st.of /\ y.changed = st.changed
        /\ \/ st.changed /\ y = st
           \/ ~st.changed /\ (st.idle <= t \/ st.ends <= t) /\ st.shown # "expired" /\ y = P!Expire(st)
           \/ /\ ~st.changed /\ (st.idle <= t \/ st.ends <= t) /\ st.shown = "expired" /\ y.shown = "expired" /\ y.expired = TRUE
              /\ y.locked = st.locked /\ y.keys = st.keys
           \/ /\ ~st.changed /\ t < st.idle /\ t < st.ends /\ y.locked = st.locked /\ y.keys = st.keys /\ y.expired = st.expired
              /\ y.shown = st.shown \/ y.shown \in {"idle", "absolute"}
    BY <1>2, <1>3, WatchTicked
  <1> HIDE DEF t, y
  <1>5. BaseFits' /\ PageFits'
    BY <1>1, <1>2, <1>3 DEF BaseFits, PageFits
  <1>6. AsksFit'
    <2>1. ASSUME NEW w \in Watches, asks[w] # None PROVE asks[w] \in PageAsks /\ InTime(asks[w], t, session, tokens)
      <3>1. asks[w] \in PageAsks /\ InTime(asks[w], now, session, tokens) /\ now < asks[w].by + Lag
        BY <1>1, <1>2, <2>1 DEF AsksFit
      <3>2. asks[w].by \in Nat
        BY <3>1 DEF PageAsks
      <3> QED BY <1>2, <1>3, <3>1, <3>2, PageConsts DEF InTime
    <2> QED BY <1>1, <1>2, <1>3, <2>1 DEF AsksFit
  <1>7. ChangeFits'
    <2>1. ASSUME change # None PROVE InTime(change, t, session, tokens)
      <3>1. change \in PageChanges /\ InTime(change, now, session, tokens) /\ now < change.by + Lag
        BY <1>1, <1>2, <2>1 DEF ChangeFits
      <3>2. change.by \in Nat
        BY <3>1 DEF PageChanges
      <3> QED BY <1>2, <1>3, <3>1, <3>2, PageConsts DEF InTime
    <2> QED BY <1>1, <1>2, <1>3, <2>1 DEF ChangeFits
  <1>8. WatchFits'
    <2>1. PageWatch' /\ st'.of <= tokens'
      BY <1>1, <1>2, <1>3, <1>4 DEF WatchFits, PageWatch
    <2>2. PageDialog' /\ P!KeysGone'
      <3>1. CASE st.changed /\ y = st
        BY <1>1, <1>2, <1>3, <3>1 DEF PageDialog, P!KeysGone
      <3>2. CASE ~st.changed /\ y = P!Expire(st)
        <4>1. y.locked = TRUE /\ (y.keys => st.locked /\ st.keys)
          BY <1>2, <3>2, WatchExpire
        <4> QED BY <1>1, <1>2, <1>3, <1>4, <3>2, <4>1 DEF PageDialog, P!KeysGone
      <3>3. CASE ~st.changed /\ st.shown = "expired" /\ y.shown = "expired" /\ y.locked = st.locked /\ y.keys = st.keys
        BY <1>1, <1>2, <1>3, <1>4, <3>3 DEF PageDialog, P!KeysGone
      <3>4. CASE ~st.changed /\ y.locked = st.locked /\ y.keys = st.keys /\ (y.shown = st.shown \/ y.shown \in {"idle", "absolute"})
        BY <1>1, <1>2, <1>3, <1>4, <3>4 DEF PageDialog, P!KeysGone
      <3> QED BY <1>4, <3>1, <3>2, <3>3, <3>4
    <2>3. P!HiddenInTime'
      <3> SUFFICES ASSUME ~y.locked, session # None, session.token = st.of PROVE t < P!EndOf(session) + Lag
        BY <1>1, <1>3, <1>4 DEF P!HiddenInTime, P!EndOf
      <3>1. t < st.idle /\ t < st.ends
        <4>1. y # P!Expire(st)
          <5>1. P!Expire(st).locked = TRUE
            BY <1>2, WatchExpire
          <5>2. CASE y = P!Expire(st)
            <6>1. y.locked = TRUE
              BY <5>1, <5>2
            <6> QED BY <6>1
          <5> QED BY <5>2
        <4>2. (st.changed => st.locked) /\ (st.shown = "expired" => st.locked)
          BY <1>2 DEF PageDialog
        <4> QED BY <1>4, <4>1, <4>2
      <3>2. session.slid \in Nat /\ session.ends \in Nat /\ st.ends = session.ends /\ st.idle <= session.slid + PageIdle + Lag
        BY <1>2 DEF WatchFits, PageWatch, BaseFits, PageSessions
      <3> QED BY <1>2, <1>3, <3>1, <3>2, PageConsts DEF P!EndOf, P!Least
    <2> QED BY <1>3, <1>4, <2>1, <2>2, <2>3 DEF WatchFits
  <1>9. PagePrompt'
    <2> SUFFICES ASSUME left.prompt
                 PROVE  /\ y.locked /\ ~y.changed => y.shown = "expired" /\ y.expired /\ (y.idle <= t \/ y.ends <= t)
                        /\ \A w \in Watches : asks[w] # None /\ asks[w].op = "stay" => y.changed \/ ~y.locked
      BY <1>1, <1>3 DEF PagePrompt
    <2>1. st.locked /\ ~st.changed => st.shown = "expired" /\ st.expired /\ (st.idle <= now \/ st.ends <= now)
      BY <1>2 DEF PagePrompt
    <2>2. ASSUME NEW w \in Watches, asks[w] # None, asks[w].op = "stay" PROVE (st.changed \/ ~st.locked) /\ t < st.idle /\ t < st.ends
      <3>1. t < P!Least(st.idle, st.ends)
        BY <1>1, <1>3, <2>2
      <3> QED BY <1>2, <1>3, <2>2, <3>1 DEF PagePrompt, P!Least
    <2>3. CASE st.changed
      BY <1>4, <2>3
    <2>4. CASE ~st.changed /\ y = P!Expire(st) /\ (st.idle <= t \/ st.ends <= t)
      <3>1. y.shown = "expired" /\ y.expired = TRUE
        BY <1>2, <2>4, WatchExpire
      <3>2. \A w \in Watches : ~(asks[w] # None /\ asks[w].op = "stay")
        BY <1>2, <1>3, <2>2, <2>4
      <3> QED BY <1>4, <2>4, <3>1, <3>2
    <2>5. CASE ~st.changed /\ st.shown = "expired" /\ (st.idle <= t \/ st.ends <= t) /\ y.shown = "expired" /\ y.expired = TRUE /\ y.locked = st.locked
      BY <1>4, <2>2, <2>5
    <2>6. CASE ~st.changed /\ t < st.idle /\ t < st.ends /\ y.locked = st.locked
      <3>1. ~st.locked
        BY <1>2, <1>3, <2>1, <2>6
      <3> QED BY <2>6, <3>1
    <2> QED BY <1>4, <2>3, <2>4, <2>5, <2>6
  <1>10. P!NeverForAnother'
    BY <1>1, PageApart DEF P!NeverForAnother
  <1> QED BY <1>5, <1>6, <1>7, <1>8, <1>9, <1>10, PageTogether

LEMMA PageStep == ASSUME PageInv, P!Next PROVE PageInv'
  <1>1. CASE P!Tick
    BY <1>1, PageTickStep
  <1>2. CASE P!Dismiss \/ P!Change \/ P!Serve \/ P!Back \/ P!OpenDrive
    BY <1>2, DismissStep, ChangeStep, ServeStep, BackStep, OpenDriveStep
  <1>3. CASE P!SignOut \/ P!UsedElsewhere
    BY <1>3, PageSignOutStep, UsedElsewhereStep
  <1>4. ASSUME NEW w \in Who, P!SignIn(w) PROVE PageInv'
    BY <1>4, PageSignInStep
  <1>5. ASSUME NEW w \in Watches, P!Watch(w) PROVE PageInv'
    BY <1>5, AnswerMeStep, StayStep, RecheckStep, AnsweredStep DEF P!Watch
  <1> QED BY <1>1, <1>2, <1>3, <1>4, <1>5 DEF P!Next

\* What a reader of the page is promised.
LEMMA PageSafe == ASSUME PageInv PROVE P!NeverForAnother /\ P!HiddenInTime /\ P!KeysGone /\ P!NeverStuck
  <1>1. P!NeverStuck
    BY PageConsts DEF PageInv, PagePrompt, P!NeverStuck
  <1> QED BY <1>1 DEF PageInv

LEMMA PageStutter == ASSUME PageInv, UNCHANGED <<left, now, session, tokens, page, st, asks, change, done>> PROVE PageInv'
  BY DEF PageInv, PageTypes, PageTokens, PageAnswers, PageWatch, PageDialog, PagePrompt, P!HiddenInTime, P!KeysGone, P!NeverForAnother, P!EndOf


-----------------------------------------------------------------------------
\* Whatever accounts, timeouts and requests there are, as long as a timeout is never made longer while cookies are
\* about: no cookie of a session that was ended works again, none works past the timeouts of its sign-in or of the
\* last use of the session, none is of a version to come, and the newest cookie of a session in use is taken
\* (lib/auth.js, directory-do.js).  And a page, however long answers take and whoever signs in beside it, changes
\* nothing of another user, is hidden in time, keeps no keys, and says how to go on (api.js, session-timeout.js).
THEOREM DirectorySessionsSafe == ASSUME ~MayRaise PROVE Spec => SessionsSafe
  <1> DEFINE Good == (part = "session" => SessionInv) /\ (part = "page" => PageInv)
             Steps == part = "session" => C!EndedStaysOut /\ C!AbsoluteEnd /\ C!IdleEnd /\ C!ActiveStaysIn
  <1>1. Init => Good
    BY SessionInit, PageInit DEF Init, InitShare, InitSignIn, InitSession, InitLimits, InitImport, InitPage
  <1>2. ASSUME Good, [Next]_vars PROVE Good' /\ [Steps]_vars
    <2>1. CASE InSession(C!Next)
      BY <1>2, <2>1, SessionStep, SessionActs DEF InSession
    <2>2. CASE InPage(P!Next)
      BY <1>2, <2>2, PageStep DEF InPage
    <2>3. CASE InShare(S!Next) \/ InSignIn(A!Next) \/ InLimits(L!Next) \/ InImport(I!Next)
      BY <2>3 DEF InShare, InSignIn, InLimits, InImport
    <2>4. CASE UNCHANGED vars
      <3>1. UNCHANGED <<part, plan, now, conf, cached, ver, off, revoked, cookies, req, born, ended, seen>>
        BY <2>4 DEF vars
      <3>2. UNCHANGED <<left, now, session, tokens, page, st, asks, change, done>>
        BY <2>4 DEF vars
      <3>3. part = "session" => SessionInv'
        BY <1>2, <3>1, SessionStutter
      <3>4. part = "page" => PageInv'
        BY <1>2, <3>2, PageStutter
      <3> QED BY <2>4, <3>1, <3>3, <3>4
    <2> QED BY <1>2, <2>1, <2>2, <2>3, <2>4 DEF Next
  <1>3. Good => (part = "session" => C!TypeOK /\ C!NoneAhead)
    BY SessionFacesForward DEF SessionInv
  <1>4. Good => (part = "page" => P!NeverForAnother /\ P!HiddenInTime /\ P!KeysGone /\ P!NeverStuck)
    BY PageSafe
  <1>5. Good /\ [Next]_vars => [Steps]_vars
    BY <1>2
  <1> QED BY <1>1, <1>2, <1>3, <1>4, <1>5, PTL DEF Spec, SessionsSafe

-----------------------------------------------------------------------------
(***************************************************************************)
(* Signing in                                                              *)
(***************************************************************************)
SignAccount == [pw : 1 .. MaxPw, ver : Nat, off : BOOLEAN, mfa : BOOLEAN]
SignMade == [key : Nat, code : 0 .. MaxCodes, chal : 0 .. MaxChals]
\* The account's rows.
SignRows ==
    /\ plan \in SignInPlans /\ now \in 0 .. SignInTime
    /\ u \in SignAccount /\ made \in SignMade
    /\ passkeys \subseteq 1 .. made.key /\ codes \subseteq 1 .. made.code /\ apiKeys \in 0 .. MaxApiKeys
    /\ A!CodesNeedPasskey /\ Cardinality(passkeys) <= MaxPasskeys
SignChals == chals \subseteq [n : 1 .. made.chal, tries : 0 .. Tries]
\* The guesses so far are the failures counted, or fill a lock, and as many fit for each lock that was lifted.
SignFails ==
    /\ fails \in A!Count /\ fails.count < MaxFails /\ stepFails \in A!Count /\ guesses \in [n : Nat, lifts : Nat]
    /\ plan.owner => fails = A!NoFails /\ guesses = A!NoGuess
    /\ fails.until <= now + LockSec
    /\ fails.until = 0 => guesses.n <= fails.count + MaxFails * guesses.lifts
    /\ guesses.n <= MaxFails * guesses.lifts + MaxFails
\* A request knows a version and a time that were.
SignAsked ==
    /\ req \in [SignInRequests -> A!Request \cup {None}]
    /\ \A r \in SignInRequests : req[r] # None => req[r].ver <= u.ver /\ req[r].ts <= now
\* A usernameless challenge under way is spent, and with one request.
SignTokens ==
    /\ spent \subseteq 1 .. MaxTokens /\ opened \in [code : Nat, chal : Nat, token : Nat]
    /\ \A r \in SignInRequests : A!Token(r) => req[r].chal \in spent
    /\ \A r, s \in SignInRequests : A!Token(r) /\ A!Token(s) /\ req[r].chal = req[s].chal => r = s
SignInv == SignRows /\ SignChals /\ SignFails /\ SignAsked /\ SignTokens

\* The instances' own FiniteSets are this module's.
LEMMA SignFinite == (\A s : A!Cardinality(s) = Cardinality(s)) /\ (\A s : A!IsFiniteSet(s) <=> IsFiniteSet(s))
  BY DEF A!Cardinality, Cardinality, A!IsFiniteSet, IsFiniteSet

LEMMA SignConstants ==
    /\ MaxFails \in Nat \ {0} /\ Window \in Nat \ {0} /\ LockSec \in Nat \ {0} /\ Tries \in Nat \ {0} /\ PerUser \in Nat \ {0}
    /\ CodeSet \in Nat \ {0} /\ MaxPasskeys \in Nat \ {0} /\ MaxApiKeys \in Nat \ {0} /\ MaxPw \in Nat \ {0}
    /\ SignInTime \in Nat /\ MaxKeyIds \in Nat /\ MaxCodes \in Nat /\ MaxChals \in Nat /\ MaxTokens \in Nat
    /\ CodeSet <= MaxCodes /\ SignInPlans \subseteq A!Plan
  BY DirectoryAssumption DEF DirectoryAssumption, A!SignInAssumption, A!PlansAssumption

LEMMA SignPlan ==
    ASSUME plan \in SignInPlans
    PROVE  /\ plan.ops \subseteq A!SignIns \cup A!Changes /\ plan.owner \in BOOLEAN /\ plan.wrong \in BOOLEAN
           /\ plan.keys \in 0 .. MaxPasskeys
  BY SignConstants DEF A!Plan

LEMMA SignInit == A!Init => SignInv
  <1> SUFFICES ASSUME A!Init PROVE SignInv
    OBVIOUS
  <1> USE SignConstants
  <1>1. plan \in SignInPlans /\ plan.keys \in 0 .. MaxPasskeys
    BY SignPlan DEF A!Init
  <1>2. IsFiniteSet({}) /\ Cardinality({}) = 0
    BY FS_EmptySet
  <1>3. Cardinality(1 .. plan.keys) = plan.keys /\ Cardinality(1 .. CodeSet) = CodeSet
    <2>1. ASSUME NEW n \in Nat PROVE Cardinality(1 .. n) = n
      <3>1. Cardinality(1 .. n) = IF 1 > n THEN 0 ELSE n - 1 + 1
        BY FS_Interval
      <3> QED BY <3>1
    <2> QED BY <1>1, <2>1
  <1>4. Cardinality(codes) \in 0 .. MaxCodes /\ codes \subseteq 1 .. Cardinality(codes)
    BY <1>1, <1>2, <1>3 DEF A!Init
  <1>44. A!Cardinality(codes) = Cardinality(codes)
    BY SignFinite
  <1>5. SignRows
    <2>1. made = [key |-> plan.keys, code |-> Cardinality(codes), chal |-> 0] /\ passkeys = 1 .. plan.keys
      BY <1>44 DEF A!Init
    <2>2. made \in [key : Nat, code : 0 .. MaxCodes, chal : 0 .. MaxChals] /\ made.key = plan.keys /\ made.code = Cardinality(codes)
      BY <1>1, <1>4, <2>1
    <2>3. u \in [pw : 1 .. MaxPw, ver : Nat, off : BOOLEAN, mfa : BOOLEAN] /\ now \in 0 .. SignInTime /\ apiKeys \in 0 .. MaxApiKeys
      BY DEF A!Init
    <2>4. A!CodesNeedPasskey
      <3>1. plan.keys > 0 => 1 \in passkeys
        BY <1>1, <2>1
      <3> QED BY <3>1 DEF A!Init, A!CodesNeedPasskey
    <2> QED BY <1>1, <1>3, <1>4, <2>1, <2>2, <2>3, <2>4 DEF SignRows, SignAccount, SignMade
  <1>6. SignChals /\ SignTokens
    BY DEF A!Init, SignChals, SignTokens, A!Token
  <1>7. SignFails
    BY DEF A!Init, SignFails, A!Count, A!NoFails, A!NoGuess
  <1>8. SignAsked
    BY DEF A!Init, SignAsked
  <1> QED BY <1>5, <1>6, <1>7, <1>8 DEF SignInv

\* What may be given is a password, a code or a passkey.
LEMMA SignGiven ==
    ASSUME SignRows, SignChals, NEW op \in A!SignIns \cup A!Changes
    PROVE  A!Secrets(op) \subseteq A!Cred /\ A!Challenges(op) \subseteq Nat
  <1> USE SignConstants
  <1>1. u.pw \in Nat /\ made.key \in Nat /\ made.code \in Nat /\ made.chal \in Nat
    BY DEF SignRows, SignAccount, SignMade
  <1>2. passkeys \subseteq Nat /\ codes \subseteq Nat
    BY <1>1 DEF SignRows
  <1>3. A!Secrets(op) \subseteq A!Cred
    <2> DEFINE pws == IF plan.wrong THEN 0 .. u.pw ELSE {u.pw}
               cds == IF plan.wrong THEN codes \cup {0} ELSE codes
    <2>1. pws \subseteq Nat /\ cds \subseteq Nat
      BY <1>1, <1>2
    <2> HIDE DEF pws, cds
    <2>2. /\ {[kind |-> "pw", n |-> g] : g \in pws} \subseteq A!Cred
          /\ {[kind |-> "key", n |-> k] : k \in passkeys} \subseteq A!Cred
          /\ {[kind |-> "code", n |-> c] : c \in cds} \subseteq A!Cred
      BY <1>2, <2>1 DEF A!Cred
    <2> QED BY <2>2 DEF A!Secrets, pws, cds
  <1>4. A!Chals \subseteq Nat
    BY <1>1 DEF SignChals, A!Chals
  <1>5. A!Challenges(op) \subseteq Nat
    BY <1>4 DEF A!Challenges
  <1> QED BY <1>3, <1>5

\* Counting passkeys.
LEMMA SignCounted ==
    ASSUME SignRows
    PROVE  /\ IsFiniteSet(passkeys) /\ Cardinality(passkeys) \in Nat /\ Cardinality(codes) \in Nat
           /\ \A k : Cardinality(passkeys \cup {k}) <= Cardinality(passkeys) + 1 /\ Cardinality(passkeys \ {k}) <= Cardinality(passkeys)
  <1>1. IsFiniteSet(1 .. made.key) /\ IsFiniteSet(1 .. made.code)
    BY FS_Interval DEF SignRows, SignMade
  <1>2. IsFiniteSet(passkeys) /\ IsFiniteSet(codes)
    BY <1>1, FS_Subset DEF SignRows
  <1>3. Cardinality(passkeys) \in Nat /\ Cardinality(codes) \in Nat
    BY <1>2, FS_CardinalityType
  <1>4. ASSUME NEW k PROVE Cardinality(passkeys \cup {k}) <= Cardinality(passkeys) + 1 /\ Cardinality(passkeys \ {k}) <= Cardinality(passkeys)
    <2>1. Cardinality(passkeys \cup {k}) = IF k \in passkeys THEN Cardinality(passkeys) ELSE Cardinality(passkeys) + 1
      BY <1>2, FS_AddElement
    <2>2. Cardinality(passkeys \ {k}) = IF k \in passkeys THEN Cardinality(passkeys) - 1 ELSE Cardinality(passkeys)
      BY <1>2, FS_RemoveElement
    <2> QED BY <1>3, <2>1, <2>2
  <1> QED BY <1>2, <1>3, <1>4

\* The rows written, field by field.
LEMMA SignWritten ==
    ASSUME NEW x \in SignAccount
    PROVE  /\ [x EXCEPT !.ver = @ + 1] \in SignAccount /\ [x EXCEPT !.ver = @ + 1].mfa = x.mfa /\ [x EXCEPT !.ver = @ + 1].ver = x.ver + 1
           /\ \A b \in BOOLEAN : [x EXCEPT !.mfa = b] \in SignAccount /\ [x EXCEPT !.mfa = b].mfa = b /\ [x EXCEPT !.mfa = b].ver = x.ver
           /\ \A b \in BOOLEAN : [x EXCEPT !.off = b] \in SignAccount /\ [x EXCEPT !.off = b].mfa = x.mfa /\ [x EXCEPT !.off = b].ver = x.ver
           /\ x.pw < MaxPw => /\ [x EXCEPT !.pw = @ + 1] \in SignAccount /\ [x EXCEPT !.pw = @ + 1].mfa = x.mfa
                              /\ [x EXCEPT !.pw = @ + 1].ver = x.ver
  BY SignConstants DEF SignAccount

LEMMA SignChanged ==
    ASSUME NEW x \in SignAccount, x.pw < MaxPw
    PROVE  LET z == [x EXCEPT !.pw = @ + 1, !.ver = @ + 1] IN z \in SignAccount /\ z.mfa = x.mfa /\ z.ver = x.ver + 1
  <1> DEFINE y == [x EXCEPT !.pw = @ + 1]
             z == [y EXCEPT !.ver = @ + 1]
  <1>1. y \in SignAccount /\ y.mfa = x.mfa /\ y.ver = x.ver
    BY SignWritten
  <1>2. z = [x EXCEPT !.pw = @ + 1, !.ver = @ + 1]
    OBVIOUS
  <1> HIDE DEF y
  <1>3. z \in SignAccount /\ z.mfa = y.mfa /\ z.ver = y.ver + 1
    BY <1>1 DEF SignAccount
  <1> HIDE DEF z
  <1> QED BY <1>1, <1>2, <1>3

LEMMA SignDisabled ==
    ASSUME NEW x \in SignAccount
    PROVE  LET z == [x EXCEPT !.off = TRUE, !.ver = @ + 1] IN z \in SignAccount /\ z.mfa = x.mfa /\ z.ver = x.ver + 1
  <1> DEFINE y == [x EXCEPT !.off = TRUE]
             z == [y EXCEPT !.ver = @ + 1]
  <1>1. y \in SignAccount /\ y.mfa = x.mfa /\ y.ver = x.ver
    BY SignWritten
  <1>2. z = [x EXCEPT !.off = TRUE, !.ver = @ + 1]
    OBVIOUS
  <1> HIDE DEF y
  <1>3. z \in SignAccount /\ z.mfa = y.mfa /\ z.ver = y.ver + 1
    BY <1>1 DEF SignAccount
  <1> HIDE DEF z
  <1> QED BY <1>1, <1>2, <1>3

LEMMA SignRecovered ==
    ASSUME NEW x \in SignAccount, x.pw < MaxPw
    PROVE  LET z == [x EXCEPT !.pw = @ + 1, !.ver = @ + 1, !.off = FALSE, !.mfa = FALSE] IN z \in SignAccount /\ z.mfa = FALSE /\ z.ver = x.ver + 1
  <1> DEFINE w == [x EXCEPT !.pw = @ + 1, !.ver = @ + 1]
             y == [w EXCEPT !.off = FALSE]
             z == [y EXCEPT !.mfa = FALSE]
  <1>1. w \in SignAccount /\ w.ver = x.ver + 1
    BY SignChanged
  <1>2. z = [x EXCEPT !.pw = @ + 1, !.ver = @ + 1, !.off = FALSE, !.mfa = FALSE]
    OBVIOUS
  <1> HIDE DEF w
  <1>3. y \in SignAccount /\ y.ver = x.ver + 1
    BY <1>1, SignWritten
  <1> HIDE DEF y
  <1>4. z \in SignAccount /\ z.mfa = FALSE /\ z.ver = x.ver + 1
    BY <1>3, SignWritten
  <1> HIDE DEF z
  <1> QED BY <1>2, <1>4

LEMMA SignAdded ==
    ASSUME NEW x \in SignMade, NEW n \in Nat, x.code + n <= MaxCodes
    PROVE  /\ [x EXCEPT !.code = @ + n] \in SignMade /\ [x EXCEPT !.code = @ + n].key = x.key
           /\ [x EXCEPT !.code = @ + n].code = x.code + n /\ [x EXCEPT !.code = @ + n].chal = x.chal
           /\ [x EXCEPT !.key = @ + 1] \in SignMade /\ [x EXCEPT !.key = @ + 1].key = x.key + 1
           /\ [x EXCEPT !.key = @ + 1].code = x.code /\ [x EXCEPT !.key = @ + 1].chal = x.chal
           /\ x.chal < MaxChals => /\ [x EXCEPT !.chal = @ + 1] \in SignMade /\ [x EXCEPT !.chal = @ + 1].key = x.key
                                   /\ [x EXCEPT !.chal = @ + 1].code = x.code /\ [x EXCEPT !.chal = @ + 1].chal = x.chal + 1
  BY SignConstants DEF SignMade

\* Nothing more than the rows, put together.
LEMMA SignRowsFrom ==
    ASSUME SignRows, plan' = plan, now' \in 0 .. SignInTime, u' \in SignAccount, made' \in SignMade, passkeys' \subseteq 1 .. made'.key,
           codes' \subseteq 1 .. made'.code, apiKeys' \in 0 .. MaxApiKeys, passkeys' = {} => codes' = {} /\ ~u'.mfa,
           Cardinality(passkeys') <= MaxPasskeys
    PROVE  SignRows'
  BY DEF SignRows, A!CodesNeedPasskey

LEMMA SignRowsParts ==
    ASSUME SignRows
    PROVE  /\ u \in SignAccount /\ made \in SignMade /\ made.key \in Nat /\ made.code \in 0 .. MaxCodes /\ made.chal \in 0 .. MaxChals
           /\ now \in 0 .. SignInTime /\ passkeys \subseteq 1 .. made.key /\ codes \subseteq 1 .. made.code /\ apiKeys \in 0 .. MaxApiKeys
           /\ (passkeys = {} => codes = {} /\ ~u.mfa) /\ Cardinality(passkeys) <= MaxPasskeys
  BY DEF SignRows, SignMade, A!CodesNeedPasskey

\* Steps that leave the account's rows alone.
LEMMA SignRowsQuiet ==
    ASSUME NEW r \in SignInRequests,
           \/ A!Ask(r) \/ A!LoginRefused(r) \/ A!LoginWrong(r) \/ A!SealAgain(r) \/ A!RecoverRefused(r) \/ A!RecoverWrong(r) \/ A!SecondRefused(r)
           \/ A!SecondTooMany(r) \/ A!SecondWrongCode(r) \/ A!SecondVerifies(r) \/ A!SecondByKey(r) \/ A!SecondWrongKey(r) \/ A!PasskeyLogin(r)
           \/ A!ConfirmVerifies(r) \/ A!ConfirmedWaits(r)
    PROVE  UNCHANGED <<plan, now, u, made, passkeys, codes, apiKeys>>
  BY DEF A!Ask, A!LoginRefused, A!LoginWrong, A!SealAgain, A!RecoverRefused, A!RecoverWrong, A!SecondRefused, A!SecondTooMany,
     A!SecondWrongCode, A!SecondVerifies, A!SecondByKey, A!SecondWrongKey, A!PasskeyLogin, A!ConfirmVerifies, A!ConfirmedWaits, A!rows

LEMMA SignRowsKept == ASSUME SignRows, A!Next PROVE SignRows'
  <1>0. /\ u \in SignAccount /\ made \in SignMade /\ made.key \in Nat /\ made.code \in 0 .. MaxCodes /\ made.chal \in 0 .. MaxChals
        /\ now \in 0 .. SignInTime /\ passkeys \subseteq 1 .. made.key /\ codes \subseteq 1 .. made.code /\ apiKeys \in 0 .. MaxApiKeys
        /\ (passkeys = {} => codes = {} /\ ~u.mfa) /\ Cardinality(passkeys) <= MaxPasskeys
    BY SignRowsParts
  <1>1. CASE UNCHANGED <<plan, now, u, made, passkeys, codes, apiKeys>>
    BY <1>0, <1>1, SignRowsFrom
  <1>2. ASSUME NEW r \in SignInRequests,
               \/ A!LoginRight(r) \/ A!RecoverRight(r) \/ A!SecondByCode(r) \/ A!ConfirmWrong(r) \/ A!ChangePassword(r) \/ A!AddPasskey(r)
               \/ A!RemovePasskey(r) \/ A!RegenerateRecoveryCodes(r) \/ A!SetSecondFactor(r) \/ A!CreateKey(r)
        PROVE  SignRows'
    <2>1. CASE A!LoginRight(r)
      <3>1. UNCHANGED <<plan, now, u, passkeys, codes, apiKeys>> /\ (made' = made \/ (made.chal < MaxChals /\ made' = [made EXCEPT !.chal = @ + 1]))
        BY <1>0, <2>1 DEF A!LoginRight, A!NewChallenge
      <3>2. made' \in SignMade /\ made'.key = made.key /\ made'.code = made.code
        <4>1. 0 \in Nat /\ made.code + 0 <= MaxCodes
          BY <1>0, SignConstants
        <4>2. CASE made.chal < MaxChals /\ made' = [made EXCEPT !.chal = @ + 1]
          BY <1>0, <4>1, <4>2, SignAdded
        <4> QED BY <1>0, <3>1, <4>2
      <3> QED BY <1>0, SignRowsFrom, <3>1, <3>2
    <2>2. CASE A!RecoverRight(r) \/ A!SecondByCode(r)
      <3>1. UNCHANGED <<plan, now, u, made, passkeys, apiKeys>> /\ codes' \subseteq codes
        BY <1>0, <2>2 DEF A!RecoverRight, A!SecondByCode, A!Spent
      <3> QED BY <1>0, SignRowsFrom, <3>1
    <2>3. CASE A!ConfirmWrong(r)
      <3>1. UNCHANGED <<plan, now, made, passkeys, codes, apiKeys>> /\ (u' = u \/ u' = [u EXCEPT !.ver = @ + 1])
        BY <1>0, <2>3 DEF A!ConfirmWrong, A!StepUpFailed
      <3>2. u' \in SignAccount /\ u'.mfa = u.mfa
        BY <1>0, <3>1 DEF SignAccount
      <3> QED BY <1>0, SignRowsFrom, <3>1, <3>2
    <2>4. CASE A!ChangePassword(r)
      <3>1. /\ UNCHANGED <<plan, now, made, passkeys, codes>> /\ apiKeys' \in {0, apiKeys} /\ u.pw < MaxPw
            /\ u' = [u EXCEPT !.pw = @ + 1, !.ver = @ + 1]
        BY <1>0, <2>4 DEF A!ChangePassword
      <3>2. u' \in SignAccount /\ u'.mfa = u.mfa
        BY <1>0, <3>1, SignChanged
      <3>3. apiKeys' \in 0 .. MaxApiKeys
        BY <1>0, <3>1, SignConstants
      <3> QED BY <1>0, SignRowsFrom, <3>1, <3>2, <3>3
    <2>5. CASE A!AddPasskey(r)
      <3>1. CASE UNCHANGED <<passkeys, codes, made>>
        BY <1>0, <2>5, <3>1, <1>1 DEF A!AddPasskey
      <3>2. CASE ~ UNCHANGED <<passkeys, codes, made>>
        <4> DEFINE first == passkeys = {} \/ codes = {}
                   n == IF first THEN CodeSet ELSE 0
        <4>1. /\ passkeys' = passkeys \cup {made.key + 1} /\ codes' = IF first THEN made.code + 1 .. made.code + CodeSet ELSE codes
              /\ made' = [made EXCEPT !.key = @ + 1, !.code = IF first THEN @ + CodeSet ELSE @]
              /\ first => made.code + CodeSet <= MaxCodes
              /\ UNCHANGED <<plan, now, u, apiKeys>> /\ Cardinality(passkeys) < MaxPasskeys
          BY <1>0, <2>5, <3>2, SignFinite DEF A!AddPasskey, A!NewCodes
        <4>2. Cardinality(passkeys') <= MaxPasskeys
          <5>1. Cardinality(passkeys) \in Nat /\ Cardinality(passkeys') <= Cardinality(passkeys) + 1 /\ MaxPasskeys \in Nat
            BY <1>0, <4>1, SignCounted, SignConstants
          <5>2. Cardinality(passkeys') \in Nat
            BY <1>0, <4>1, SignCounted, FS_AddElement, FS_CardinalityType
          <5> QED BY <4>1, <5>1, <5>2
        <4>3. n \in Nat /\ made.code + n <= MaxCodes
          <5>1. CASE first
            BY <1>0, <4>1, <5>1, SignConstants
          <5>2. CASE ~first
            BY <1>0, <5>2
          <5> QED BY <5>1, <5>2
        <4>4. made' \in SignMade /\ made'.key = made.key + 1 /\ made'.code = made.code + n
          <5> DEFINE m == [made EXCEPT !.key = @ + 1]
                     l == [m EXCEPT !.code = @ + n]
          <5>1. m \in SignMade /\ m.key = made.key + 1 /\ m.code = made.code
            BY <1>0, SignAdded, <4>3
          <5>0. (IF first THEN made.code + CodeSet ELSE made.code) = made.code + n
            BY <1>0
          <5>2. made' = l
            <6>1. made' = [m EXCEPT !.code = IF first THEN @ + CodeSet ELSE @]
              BY <4>1
            <6> QED BY <5>0, <5>1, <6>1
          <5> HIDE DEF m, n
          <5>3. l \in SignMade /\ l.key = m.key /\ l.code = m.code + n
            BY <1>0, <4>3, <5>1, SignAdded
          <5> HIDE DEF l
          <5> QED BY <5>1, <5>2, <5>3
        <4>5. codes' \subseteq 1 .. made'.code /\ passkeys' \subseteq 1 .. made'.key /\ passkeys' # {}
          BY <1>0, <4>1, <4>3, <4>4
        <4> HIDE DEF first, n
        <4> QED BY <1>0, SignRowsFrom, <4>1, <4>2, <4>4, <4>5
      <3> QED BY <1>0, SignRowsFrom, <3>1, <3>2
    <2>6. CASE A!RemovePasskey(r)
      <3>1. PICK k : IF passkeys = {k} THEN A!DropPasskeys ELSE passkeys' = passkeys \ {k} /\ UNCHANGED <<codes, u>>
        BY <1>0, <2>6 DEF A!RemovePasskey
      <3>2. UNCHANGED <<plan, now, apiKeys, made>>
        BY <1>0, <2>6 DEF A!RemovePasskey
      <3>3. CASE passkeys = {k}
        <4>1. passkeys' = {} /\ codes' = {} /\ u' = [u EXCEPT !.mfa = FALSE]
          BY <1>0, <3>1, <3>3 DEF A!DropPasskeys
        <4>2. u' \in SignAccount /\ ~u'.mfa
          BY <1>0, <4>1, SignWritten
        <4>3. Cardinality(passkeys') <= MaxPasskeys
          BY <4>1, FS_EmptySet, SignConstants
        <4> QED BY <1>0, SignRowsFrom, <3>2, <4>1, <4>2, <4>3
      <3>4. CASE passkeys # {k}
        <4>1. passkeys' = passkeys \ {k} /\ UNCHANGED <<codes, u>>
          BY <1>0, <3>1, <3>4
        <4>2. Cardinality(passkeys') <= MaxPasskeys
          <5>1. Cardinality(passkeys) \in Nat /\ Cardinality(passkeys') <= Cardinality(passkeys) /\ MaxPasskeys \in Nat
            BY <1>0, <4>1, SignCounted, SignConstants
          <5>2. Cardinality(passkeys') \in Nat
            BY <1>0, <4>1, SignCounted, FS_RemoveElement, FS_CardinalityType
          <5> QED BY <1>0, <5>1, <5>2
        <4>3. passkeys' = {} => passkeys = {}
          BY <1>0, <3>4, <4>1
        <4> QED BY <1>0, SignRowsFrom, <3>2, <4>1, <4>2, <4>3
      <3> QED BY <1>0, SignRowsFrom, <3>3, <3>4
    <2>7. CASE A!RegenerateRecoveryCodes(r)
      <3>1. CASE UNCHANGED <<codes, made>>
        BY <1>0, <2>7, <3>1, <1>1 DEF A!RegenerateRecoveryCodes
      <3>2. CASE ~ UNCHANGED <<codes, made>>
        <4>1. /\ codes' = made.code + 1 .. made.code + CodeSet /\ made' = [made EXCEPT !.code = @ + CodeSet]
              /\ made.code + CodeSet <= MaxCodes /\ passkeys # {} /\ UNCHANGED <<plan, now, u, passkeys, apiKeys>>
          BY <1>0, <2>7, <3>2 DEF A!RegenerateRecoveryCodes, A!NewCodes
        <4>2. made' \in SignMade /\ made'.key = made.key /\ made'.code = made.code + CodeSet
          BY <1>0, <4>1, SignAdded, SignConstants
        <4>3. codes' \subseteq 1 .. made'.code
          <5>1. made.code + 1 .. made.code + CodeSet \subseteq 1 .. made.code + CodeSet
            BY <1>0, SignConstants
          <5> QED BY <4>1, <4>2, <5>1
        <4> QED BY <1>0, SignRowsFrom, <4>1, <4>2, <4>3
      <3> QED BY <1>0, SignRowsFrom, <3>1, <3>2
    <2>8. CASE A!SetSecondFactor(r)
      <3>1. PICK on \in BOOLEAN : u' = IF on /\ passkeys = {} THEN u ELSE [u EXCEPT !.mfa = on]
        BY <1>0, <2>8 DEF A!SetSecondFactor
      <3>2. UNCHANGED <<plan, now, made, passkeys, codes, apiKeys>>
        BY <1>0, <2>8 DEF A!SetSecondFactor
      <3>3. u' \in SignAccount /\ (passkeys = {} => ~u'.mfa)
        BY <1>0, <3>1, SignWritten
      <3> QED BY <1>0, SignRowsFrom, <3>2, <3>3
    <2>9. CASE A!CreateKey(r)
      <3>1. UNCHANGED <<plan, now, u, made, passkeys, codes>> /\ apiKeys' = IF apiKeys >= MaxApiKeys THEN apiKeys ELSE apiKeys + 1
        BY <1>0, <2>9 DEF A!CreateKey
      <3>2. apiKeys' \in 0 .. MaxApiKeys
        BY <1>0, <3>1, SignConstants
      <3> QED BY <1>0, SignRowsFrom, <3>1, <3>2
    <2> QED BY <1>0, SignRowsFrom, <1>2, <2>1, <2>2, <2>3, <2>4, <2>5, <2>6, <2>7, <2>8, <2>9
  <1>3. CASE A!UnlockUser \/ A!Lapse
    BY <1>0, <1>3, <1>1 DEF A!UnlockUser, A!Lapse
  <1>4. CASE A!SetPassword
    <2>1. UNCHANGED <<plan, now, made, passkeys, codes>> /\ apiKeys' = 0 /\ u.pw < MaxPw /\ u' = [u EXCEPT !.pw = @ + 1, !.ver = @ + 1]
      BY <1>0, <1>4 DEF A!SetPassword
    <2>2. u' \in SignAccount /\ u'.mfa = u.mfa
      BY <1>0, <2>1, SignChanged, Zenon
    <2>3. apiKeys' \in 0 .. MaxApiKeys
      BY <2>1, SignConstants
    <2> QED BY <1>0, SignRowsFrom, <2>1, <2>2, <2>3
  <1>5. CASE A!Disable \/ A!Enable
    <2>1. /\ UNCHANGED <<plan, now, made, passkeys, codes, apiKeys>>
          /\ u' = [u EXCEPT !.off = TRUE, !.ver = @ + 1] \/ u' = [u EXCEPT !.off = FALSE]
      BY <1>0, <1>5 DEF A!Disable, A!Enable
    <2>2. u' \in SignAccount /\ u'.mfa = u.mfa
      <3>1. CASE u' = [u EXCEPT !.off = TRUE, !.ver = @ + 1]
        BY <1>0, <3>1, SignDisabled, Zenon
      <3>2. CASE u' = [u EXCEPT !.off = FALSE]
        BY <1>0, <3>2, SignWritten
      <3> QED BY <2>1, <3>1, <3>2
    <2> QED BY <1>0, SignRowsFrom, <2>1, <2>2
  <1>6. CASE A!AdminResetPasskeys
    <2>1. UNCHANGED <<plan, now, made, apiKeys>> /\ passkeys' = {} /\ codes' = {} /\ u' = [u EXCEPT !.mfa = FALSE]
      BY <1>0, <1>6 DEF A!AdminResetPasskeys, A!DropPasskeys
    <2>2. u' \in SignAccount /\ ~u'.mfa
      BY <1>0, <2>1, SignWritten
    <2>3. Cardinality(passkeys') <= MaxPasskeys
      BY <2>1, FS_EmptySet, SignConstants
    <2> QED BY <1>0, SignRowsFrom, <2>1, <2>2, <2>3
  <1>7. CASE A!Recover
    <2>1. /\ UNCHANGED <<plan, now, made>> /\ passkeys' = {} /\ codes' = {} /\ apiKeys' = 0 /\ u.pw < MaxPw
          /\ u' = [u EXCEPT !.pw = @ + 1, !.ver = @ + 1, !.off = FALSE, !.mfa = FALSE]
      BY <1>0, <1>7 DEF A!Recover
    <2>2. u' \in SignAccount /\ u'.mfa = FALSE
      BY <1>0, <2>1, SignRecovered, Zenon
    <2>3. Cardinality(passkeys') <= MaxPasskeys /\ apiKeys' \in 0 .. MaxApiKeys
      BY <2>1, FS_EmptySet, SignConstants
    <2> QED BY <1>0, SignRowsFrom, <2>1, <2>2, <2>3
  <1>8. CASE A!Tick
    <2>1. UNCHANGED <<plan, u, made, passkeys, codes, apiKeys>> /\ now < SignInTime /\ now' = now + 1
      BY <1>0, <1>8 DEF A!Tick, A!rows
    <2>2. now' \in 0 .. SignInTime
      BY <1>0, <2>1, SignConstants
    <2> QED BY <1>0, SignRowsFrom, <2>1, <2>2
  <1> QED BY <1>1, <1>2, <1>3, <1>4, <1>5, <1>6, <1>7, <1>8, SignRowsQuiet DEF A!Next

\* Wrong answers.
LEMMA SignTimes ==
    ASSUME NEW l \in Nat
    PROVE  MaxFails * l \in Nat /\ MaxFails * (l + 1) = MaxFails * l + MaxFails
  BY SignConstants

LEMMA SignFailsQuiet ==
    ASSUME SignRows, SignFails, UNCHANGED <<plan, fails, guesses>>, now' \in Nat, now' >= now, stepFails' \in A!Count
    PROVE  SignFails'
  <1> fails.until \in Nat /\ now \in Nat /\ LockSec \in Nat
    BY SignConstants DEF SignFails, SignRows, A!Count
  <1> QED BY DEF SignFails

LEMMA SignForgotten ==
    ASSUME SignRows, SignFails, UNCHANGED <<plan, now>>, stepFails' \in A!Count, fails' = A!NoFails, guesses' = A!NoGuess
    PROVE  SignFails'
  <1>1. now \in Nat /\ LockSec \in Nat /\ MaxFails \in Nat \ {0} /\ MaxFails * 0 = 0 /\ Window \in Nat /\ SignInTime \in Nat
    BY SignConstants DEF SignRows
  <1>2. A!NoFails \in A!Count /\ A!NoFails.count = 0 /\ A!NoFails.until = 0
    BY <1>1 DEF A!NoFails, A!Count
  <1>3. A!NoGuess \in [n : Nat, lifts : Nat] /\ A!NoGuess.n = 0 /\ A!NoGuess.lifts = 0
    BY DEF A!NoGuess
  <1> QED BY <1>1, <1>2, <1>3 DEF SignFails

LEMMA SignCountOf ==
    ASSUME NEW f \in A!Count, f.count < MaxFails, NEW ts \in 0 .. SignInTime
    PROVE  /\ A!CountOf(f, ts) \in 1 .. MaxFails /\ A!StartOf(f, ts) \in -Window - 1 .. SignInTime
           /\ ~A!Fresh(f, ts) => A!CountOf(f, ts) = f.count + 1
  BY SignConstants DEF A!CountOf, A!StartOf, A!Count

\* The guesses a failure now is added to are no more than the failures it is added to.
LEMMA SignGuesses ==
    ASSUME SignRows, SignFails, NEW ts \in 0 .. now, ~A!Locked(ts)
    PROVE  /\ A!GuessesAt(ts) \in [n : Nat, lifts : Nat]
           /\ A!GuessesAt(ts).n + 1 <= A!CountOf(fails, ts) + MaxFails * A!GuessesAt(ts).lifts
           /\ plan.owner => A!GuessesAt(ts) = A!NoGuess
  <1>1. /\ fails \in A!Count /\ fails.count < MaxFails /\ guesses \in [n : Nat, lifts : Nat] /\ fails.until \in Nat
        /\ plan.owner \in BOOLEAN /\ now \in 0 .. SignInTime
    BY SignPlan, SignConstants DEF SignFails, SignRows, A!Count
  <1>2. ts \in 0 .. SignInTime /\ A!CountOf(fails, ts) \in Nat /\ A!CountOf(fails, ts) >= 1 /\ MaxFails * 0 = 0
    BY <1>1, SignCountOf, SignConstants
  <1>3. A!NoGuess \in [n : Nat, lifts : Nat] /\ A!NoGuess.n = 0 /\ A!NoGuess.lifts = 0
    BY DEF A!NoGuess
  <1>4. CASE A!GuessesAt(ts) = A!NoGuess
    BY <1>2, <1>3, <1>4
  <1>5. CASE A!GuessesAt(ts) # A!NoGuess
    <2>1. A!GuessesAt(ts) = guesses /\ ~A!Fresh(fails, ts) /\ ~plan.owner /\ ~(fails.until \in 1 .. ts)
      BY <1>5 DEF A!GuessesAt
    <2>2. fails.until = 0
      BY <1>1, <1>2, <2>1 DEF A!Locked
    <2>3. guesses.n <= fails.count + MaxFails * guesses.lifts
      BY <2>2 DEF SignFails
    <2>4. A!CountOf(fails, ts) = fails.count + 1 /\ fails.count \in Nat
      BY <1>1, <1>2, <2>1, SignCountOf DEF A!Count
    <2>5. MaxFails * guesses.lifts \in Nat
      BY <1>1, SignTimes
    <2> QED BY <1>1, <2>1, <2>3, <2>4, <2>5
  <1> QED BY <1>4, <1>5

\* A failure counted, on guesses that it leaves room for.
LEMMA SignCountedFailure ==
    ASSUME SignRows, SignFails, NEW ts \in 0 .. now, UNCHANGED <<plan, now, stepFails>>, A!PasswordFailure(ts),
           guesses' \in [n : Nat, lifts : Nat], guesses'.n <= A!CountOf(fails, ts) + MaxFails * guesses'.lifts,
           plan.owner => guesses' = A!NoGuess
    PROVE  SignFails'
  <1>1. /\ fails \in A!Count /\ fails.count < MaxFails /\ plan.owner \in BOOLEAN /\ now \in 0 .. SignInTime /\ ts \in 0 .. SignInTime
        /\ SignInTime \in Nat /\ LockSec \in Nat \ {0} /\ MaxFails \in Nat \ {0} /\ Window \in Nat
    BY SignPlan, SignConstants DEF SignFails, SignRows
  <1>2. CASE plan.owner
    <2>1. fails' = fails /\ fails = A!NoFails /\ guesses = A!NoGuess /\ guesses' = A!NoGuess
      BY <1>2 DEF A!PasswordFailure, SignFails
    <2> QED BY <1>1, <2>1, SignFailsQuiet DEF SignFails
  <1>3. CASE ~plan.owner
    <2> DEFINE c == A!CountOf(fails, ts)
               l == MaxFails * guesses'.lifts
    <2>1. c \in 1 .. MaxFails /\ A!StartOf(fails, ts) \in -Window - 1 .. SignInTime /\ l \in Nat
      BY <1>1, SignCountOf, SignTimes
    <2>2. fails' = A!Counted(ts)
      BY <1>3 DEF A!PasswordFailure
    <2>3. CASE c >= MaxFails
      <3>1. fails' = [count |-> 0, start |-> ts, until |-> ts + LockSec] /\ c = MaxFails
        BY <1>1, <2>1, <2>2, <2>3 DEF A!Counted
      <3>2. fails' \in A!Count /\ fails'.count = 0 /\ fails'.until = ts + LockSec
        BY <1>1, <3>1 DEF A!Count
      <3>3. fails'.until <= now + LockSec /\ fails'.until # 0
        BY <1>1, <3>2
      <3>4. guesses'.n <= l + MaxFails
        BY <1>1, <2>1, <3>1
      <3> QED BY <1>1, <1>3, <3>2, <3>3, <3>4 DEF SignFails
    <2>4. CASE c < MaxFails
      <3>1. fails' = [count |-> c, start |-> A!StartOf(fails, ts), until |-> 0]
        BY <1>1, <2>1, <2>2, <2>4 DEF A!Counted
      <3>2. fails' \in A!Count /\ fails'.count = c /\ fails'.until = 0
        BY <1>1, <2>1, <3>1 DEF A!Count
      <3>3. guesses'.n <= l + MaxFails /\ guesses'.n <= c + l /\ c < MaxFails /\ 0 <= now + LockSec
        BY <1>1, <2>1, <2>4
      <3> QED BY <1>1, <1>3, <3>2, <3>3 DEF SignFails
    <2> QED BY <1>1, <2>1, <2>3, <2>4
  <1> QED BY <1>1, <1>2, <1>3

LEMMA SignGuessed ==
    ASSUME SignRows, SignFails, NEW ts \in 0 .. now, UNCHANGED <<plan, now, stepFails>>, A!PasswordFailure(ts), A!Guess(ts), ~A!Locked(ts)
    PROVE  SignFails'
  <1> DEFINE g == A!GuessesAt(ts)
  <1>1. g \in [n : Nat, lifts : Nat] /\ g.n + 1 <= A!CountOf(fails, ts) + MaxFails * g.lifts
    BY SignGuesses
  <1>2. CASE plan.owner
    <2>1. guesses' = A!NoGuess /\ A!NoGuess = [n |-> 0, lifts |-> 0] /\ fails' = fails /\ guesses = A!NoGuess
      BY <1>2 DEF A!Guess, A!NoGuess, A!PasswordFailure, SignFails
    <2>2. now \in Nat /\ stepFails \in A!Count
      BY SignConstants DEF SignRows, SignFails
    <2> QED BY <2>1, <2>2, SignFailsQuiet
  <1>3. CASE ~plan.owner
    <2>1. guesses' = [g EXCEPT !.n = @ + 1]
      BY <1>3 DEF A!Guess
    <2>2. guesses' \in [n : Nat, lifts : Nat] /\ guesses'.n = g.n + 1 /\ guesses'.lifts = g.lifts
      BY <1>1, <2>1
    <2> HIDE DEF g
    <2> QED BY <1>1, <1>3, <2>2, SignCountedFailure
  <1> QED BY <1>2, <1>3

LEMMA SignLifted ==
    ASSUME SignRows, SignFails, NEW ts \in 0 .. now, UNCHANGED <<plan, now, stepFails>>, A!PasswordFailure(ts), A!Lifts(ts)
    PROVE  SignFails'
  <1>1. /\ guesses \in [n : Nat, lifts : Nat] /\ fails \in A!Count /\ fails.count < MaxFails /\ ts \in 0 .. SignInTime
        /\ guesses.n <= MaxFails * guesses.lifts + MaxFails
    BY SignConstants DEF SignFails, SignRows
  <1>2. CASE A!Locked(ts)
    <2>1. guesses' = [guesses EXCEPT !.lifts = @ + 1]
      BY <1>2 DEF A!Lifts
    <2>2. guesses' \in [n : Nat, lifts : Nat] /\ guesses'.n = guesses.n /\ guesses'.lifts = guesses.lifts + 1
      BY <1>1, <2>1
    <2>3. MaxFails * guesses'.lifts = MaxFails * guesses.lifts + MaxFails /\ MaxFails * guesses.lifts \in Nat /\ MaxFails \in Nat
      BY <1>1, <2>2, SignTimes, SignConstants
    <2>4. A!CountOf(fails, ts) \in Nat
      BY <1>1, SignCountOf, SignConstants
    <2>5. guesses'.n <= A!CountOf(fails, ts) + MaxFails * guesses'.lifts
      BY <1>1, <2>2, <2>3, <2>4
    <2>6. ~plan.owner
      BY <1>2 DEF A!Locked
    <2> QED BY <2>2, <2>5, <2>6, SignCountedFailure
  <1>3. CASE ~A!Locked(ts)
    <2> DEFINE g == A!GuessesAt(ts)
    <2>1. g \in [n : Nat, lifts : Nat] /\ g.n + 1 <= A!CountOf(fails, ts) + MaxFails * g.lifts /\ (plan.owner => g = A!NoGuess)
      BY <1>3, SignGuesses
    <2>2. guesses' = g
      BY <1>3 DEF A!Lifts
    <2>3. MaxFails * g.lifts \in Nat /\ A!CountOf(fails, ts) \in Nat
      BY <1>1, <2>1, SignCountOf, SignConstants, SignTimes
    <2> HIDE DEF g
    <2>4. g.n <= A!CountOf(fails, ts) + MaxFails * g.lifts
      BY <2>1, <2>3
    <2> QED BY <2>1, <2>2, <2>4, SignCountedFailure
  <1> QED BY <1>2, <1>3

LEMMA SignFailsKept == ASSUME SignRows, SignFails, SignAsked, A!Next PROVE SignFails'
  <1>0. now \in Nat /\ SignInTime \in Nat /\ stepFails \in A!Count /\ fails \in A!Count /\ A!NoFails \in A!Count /\ now \in 0 .. SignInTime
    BY SignConstants DEF SignRows, SignFails, A!NoFails, A!Count
  <1>1. CASE UNCHANGED <<plan, now, fails, stepFails, guesses>>
    BY <1>0, <1>1, SignFailsQuiet
  <1>2. ASSUME NEW r \in SignInRequests, req[r] # None
        PROVE  req[r].ts \in 0 .. now
    BY <1>0, <1>2 DEF SignAsked, A!Request
  <1>3. ASSUME NEW r \in SignInRequests, A!LoginWrong(r) \/ A!RecoverWrong(r) \/ A!SecondWrongCode(r)
        PROVE  SignFails'
    <2>1. /\ req[r] # None /\ A!PasswordFailure(req[r].ts) /\ A!Guess(req[r].ts) /\ ~A!Locked(req[r].ts)
          /\ UNCHANGED <<plan, now, stepFails>>
      BY <1>3 DEF A!LoginWrong, A!RecoverWrong, A!SecondWrongCode, A!MayTry, A!AtSecond
    <2> QED BY <1>2, <2>1, SignGuessed
  <1>4. ASSUME NEW r \in SignInRequests, A!SecondWrongKey(r) PROVE SignFails'
    <2>1. /\ req[r] # None /\ A!PasswordFailure(req[r].ts) /\ A!Lifts(req[r].ts) /\ UNCHANGED <<plan, now, stepFails>>
      BY <1>4 DEF A!SecondWrongKey
    <2> QED BY <1>2, <2>1, SignLifted
  <1>5. ASSUME NEW r \in SignInRequests, A!LoginRight(r) \/ A!RecoverRight(r) \/ A!SecondByCode(r) \/ A!SecondByKey(r) \/ A!PasskeyLogin(r)
        PROVE  SignFails'
    <2>1. UNCHANGED <<plan, now, stepFails>> /\ (UNCHANGED <<fails, guesses>> \/ (fails' = A!NoFails /\ guesses' = A!NoGuess))
      BY <1>5 DEF A!LoginRight, A!RecoverRight, A!SecondByCode, A!SecondByKey, A!PasskeyLogin, A!SessionFor
    <2> QED BY <1>0, <1>1, <2>1, SignForgotten
  <1>6. ASSUME NEW r \in SignInRequests, \/ A!ConfirmWrong(r) \/ A!ConfirmedWaits(r) \/ A!ChangePassword(r) \/ A!RegenerateRecoveryCodes(r)
                                         \/ A!SetSecondFactor(r) \/ A!CreateKey(r)
        PROVE  SignFails'
    <2>1. UNCHANGED <<plan, now, fails, guesses>>
      BY <1>6 DEF A!ConfirmWrong, A!ConfirmedWaits, A!ChangePassword, A!RegenerateRecoveryCodes, A!SetSecondFactor, A!CreateKey
    <2>2. CASE stepFails' = A!NoFails
      BY <1>0, <2>1, <2>2, SignFailsQuiet
    <2>3. CASE stepFails' # A!NoFails
      <3>1. A!ConfirmWrong(r)
        BY <1>6, <2>3 DEF A!ConfirmedWaits, A!ChangePassword, A!RegenerateRecoveryCodes, A!SetSecondFactor, A!CreateKey
      <3>2. /\ stepFails' = [count |-> A!CountOf(stepFails, now), start |-> A!StartOf(stepFails, now), until |-> 0]
            /\ ~(A!CountOf(stepFails, now) >= MaxFails)
        BY <3>1, <2>3 DEF A!ConfirmWrong, A!StepUpFailed
      <3>3. A!CountOf(stepFails, now) \in Nat /\ A!StartOf(stepFails, now) \in -Window - 1 .. SignInTime /\ MaxFails \in Nat /\ LockSec \in Nat
        BY <1>0, SignConstants DEF A!CountOf, A!StartOf, A!Count
      <3>4. stepFails' \in A!Count
        BY <1>0, <3>2, <3>3 DEF A!Count
      <3> QED BY <1>0, <2>1, <3>4, SignFailsQuiet
    <2> QED BY <2>2, <2>3
  <1>7. CASE A!SetPassword \/ A!UnlockUser \/ A!Recover
    <2>1. UNCHANGED <<plan, now, stepFails>> /\ fails' = A!NoFails /\ guesses' = A!NoGuess
      BY <1>7 DEF A!SetPassword, A!UnlockUser, A!Recover
    <2> QED BY <1>0, <2>1, SignForgotten
  <1>8. CASE A!Tick
    <2>1. UNCHANGED <<plan, fails, guesses, stepFails>> /\ now' = now + 1
      BY <1>8 DEF A!Tick, A!rows
    <2>2. now' \in Nat /\ now' >= now /\ stepFails' \in A!Count
      BY <1>0, <2>1
    <2> QED BY <2>1, <2>2, SignFailsQuiet
  <1>9. ASSUME NEW r \in SignInRequests,
               \/ A!Ask(r) \/ A!LoginRefused(r) \/ A!SealAgain(r) \/ A!RecoverRefused(r) \/ A!SecondRefused(r) \/ A!SecondTooMany(r)
               \/ A!SecondVerifies(r) \/ A!ConfirmVerifies(r) \/ A!AddPasskey(r) \/ A!RemovePasskey(r)
        PROVE  SignFails'
    BY <1>1, <1>9 DEF A!Ask, A!LoginRefused, A!SealAgain, A!RecoverRefused, A!SecondRefused, A!SecondTooMany, A!SecondVerifies, A!ConfirmVerifies,
       A!AddPasskey, A!RemovePasskey, A!rows
  <1>10. CASE A!Disable \/ A!Enable \/ A!AdminResetPasskeys \/ A!Lapse
    BY <1>1, <1>10 DEF A!Disable, A!Enable, A!AdminResetPasskeys, A!Lapse
  <1> QED BY <1>3, <1>4, <1>5, <1>6, <1>7, <1>8, <1>9, <1>10 DEF A!Next

-----------------------------------------------------------------------------
\* Versions and time only grow.
LEMMA SignGrows == ASSUME SignRows, A!Next PROVE plan' = plan /\ u'.ver \in Nat /\ u'.ver >= u.ver /\ now' >= now /\ now' \in Nat
  <1>0. u \in SignAccount /\ u.ver \in Nat /\ now \in Nat
    BY DEF SignRows, SignAccount
  <1>1. CASE UNCHANGED <<plan, now, u>>
    BY <1>0, <1>1
  <1>2. CASE \E r \in SignInRequests : \/ A!LoginRight(r) \/ A!RecoverRight(r) \/ A!SecondByCode(r) \/ A!AddPasskey(r) \/ A!RegenerateRecoveryCodes(r)
                                       \/ A!CreateKey(r)
    BY <1>1, <1>2 DEF A!LoginRight, A!RecoverRight, A!SecondByCode, A!AddPasskey, A!RegenerateRecoveryCodes, A!CreateKey
  <1>3. CASE A!UnlockUser \/ A!Lapse
    BY <1>1, <1>3 DEF A!UnlockUser, A!Lapse
  <1>4. CASE A!Tick
    <2>1. UNCHANGED <<plan, u>> /\ now' = now + 1
      BY <1>4 DEF A!Tick, A!rows
    <2> QED BY <1>0, <2>1
  <1>5. CASE A!AdminResetPasskeys \/ (\E r \in SignInRequests : A!RemovePasskey(r) \/ A!SetSecondFactor(r))
    <2>1. UNCHANGED <<plan, now>> /\ (u' = u \/ \E b \in BOOLEAN : u' = [u EXCEPT !.mfa = b])
      BY <1>5 DEF A!AdminResetPasskeys, A!RemovePasskey, A!SetSecondFactor, A!DropPasskeys
    <2>2. u'.ver = u.ver
      BY <1>0, <2>1 DEF SignAccount
    <2> QED BY <1>0, <2>1, <2>2
  <1>6. CASE A!SetPassword \/ (\E r \in SignInRequests : A!ChangePassword(r))
    <2>1. UNCHANGED <<plan, now>> /\ u.pw < MaxPw /\ u' = [u EXCEPT !.pw = @ + 1, !.ver = @ + 1]
      BY <1>6 DEF A!SetPassword, A!ChangePassword
    <2>2. u'.ver = u.ver + 1
      BY <1>0, <2>1, SignChanged, Zenon
    <2> QED BY <1>0, <2>1, <2>2
  <1>7. CASE A!Disable
    <2>1. UNCHANGED <<plan, now>> /\ u' = [u EXCEPT !.off = TRUE, !.ver = @ + 1]
      BY <1>7 DEF A!Disable
    <2>2. u'.ver = u.ver + 1
      BY <1>0, <2>1, SignDisabled, Zenon
    <2> QED BY <1>0, <2>1, <2>2
  <1>8. CASE A!Enable
    <2>1. UNCHANGED <<plan, now>> /\ u' = [u EXCEPT !.off = FALSE]
      BY <1>8 DEF A!Enable
    <2>2. u'.ver = u.ver
      BY <1>0, <2>1, SignWritten
    <2> QED BY <1>0, <2>1, <2>2
  <1>9. CASE A!Recover
    <2>1. UNCHANGED <<plan, now>> /\ u.pw < MaxPw /\ u' = [u EXCEPT !.pw = @ + 1, !.ver = @ + 1, !.off = FALSE, !.mfa = FALSE]
      BY <1>9 DEF A!Recover
    <2>2. u'.ver = u.ver + 1
      BY <1>0, <2>1, SignRecovered, Zenon
    <2> QED BY <1>0, <2>1, <2>2
  <1>10. CASE \E r \in SignInRequests : A!ConfirmWrong(r)
    <2>1. UNCHANGED <<plan, now>> /\ (u' = u \/ u' = [u EXCEPT !.ver = @ + 1])
      BY <1>10 DEF A!ConfirmWrong, A!StepUpFailed
    <2>2. u'.ver \in Nat /\ u'.ver >= u.ver
      BY <1>0, <2>1 DEF SignAccount
    <2> QED BY <1>0, <2>1, <2>2
  <1> QED BY <1>1, <1>2, <1>3, <1>4, <1>5, <1>6, <1>7, <1>8, <1>9, <1>10, SignRowsQuiet DEF A!Next

\* The fields of a request written.
LEMMA SignRequest ==
    ASSUME NEW q \in A!Request
    PROVE  /\ \A x \in {"sealing", "verifying", "sealed"} :
                LET z == [q EXCEPT !.at = x] IN z \in A!Request /\ z.op = q.op /\ z.chal = q.chal /\ z.ver = q.ver /\ z.ts = q.ts
           /\ \A x \in Nat : LET z == [q EXCEPT !.ver = x] IN z \in A!Request /\ z.op = q.op /\ z.chal = q.chal /\ z.ver = x /\ z.ts = q.ts
           /\ \A x \in BOOLEAN : LET z == [q EXCEPT !.off = x] IN z \in A!Request /\ z.op = q.op /\ z.chal = q.chal /\ z.ver = q.ver /\ z.ts = q.ts
           /\ \A x \in Nat : LET z == [q EXCEPT !.left = x] IN
                z \in A!Request /\ z.op = q.op /\ z.chal = q.chal /\ z.ver = q.ver /\ z.ts = q.ts /\ z.again = q.again
           /\ q.again < 3 => LET z == [q EXCEPT !.again = @ + 1] IN
                z \in A!Request /\ z.op = q.op /\ z.chal = q.chal /\ z.ver = q.ver /\ z.ts = q.ts
  BY DEF A!Request

\* How a request goes on: it knows what it knew, and the version and time read anew.
SignLater(q, p) ==
    q \in A!Request /\ q.op = p.op /\ q.chal = p.chal /\ q.ts = p.ts /\ (q.ver = p.ver \/ q.ver = u.ver)
SignMove(r) ==
    \/ req' = [req EXCEPT ![r] = None]
    \/ req[r] # None /\ \E q \in A!Request : SignLater(q, req[r]) /\ req' = [req EXCEPT ![r] = q]
SignStay(r) == UNCHANGED <<spent, plan>> /\ SignMove(r)

LEMMA SignMoves ==
    ASSUME SignRows, SignAsked, NEW r \in SignInRequests,
           \/ A!LoginRefused(r) \/ A!LoginWrong(r) \/ A!LoginRight(r) \/ A!SealAgain(r) \/ A!RecoverRefused(r) \/ A!RecoverWrong(r)
           \/ A!RecoverRight(r) \/ A!SecondRefused(r) \/ A!SecondTooMany(r) \/ A!SecondByCode(r) \/ A!SecondWrongCode(r)
           \/ A!SecondVerifies(r) \/ A!SecondByKey(r) \/ A!SecondWrongKey(r) \/ A!PasskeyLogin(r)
           \/ A!ConfirmWrong(r) \/ A!ConfirmVerifies(r) \/ A!ConfirmedWaits(r)
           \/ A!ChangePassword(r) \/ A!AddPasskey(r) \/ A!RemovePasskey(r)
           \/ A!RegenerateRecoveryCodes(r) \/ A!SetSecondFactor(r) \/ A!CreateKey(r)
    PROVE  SignStay(r)
  <1>0. u.ver \in Nat /\ u.off \in BOOLEAN /\ A!Cardinality(codes) \in Nat /\ (req[r] # None => req[r] \in A!Request)
    BY SignCounted, SignFinite DEF SignAsked, SignRows, SignAccount
  <1>1. CASE A!LoginRefused(r) \/ A!LoginWrong(r) \/ A!LoginRight(r) \/ A!RecoverRefused(r) \/ A!RecoverWrong(r)
             \/ A!RecoverRight(r) \/ A!SecondRefused(r) \/ A!SecondTooMany(r) \/ A!SecondByCode(r) \/ A!SecondWrongCode(r)
             \/ A!SecondByKey(r) \/ A!SecondWrongKey(r) \/ A!PasskeyLogin(r)
    BY <1>1 DEF SignStay, SignMove, A!Ends, A!rows, A!LoginRefused, A!LoginWrong, A!LoginRight, A!RecoverRefused, A!RecoverWrong, A!RecoverRight,
       A!SecondRefused, A!SecondTooMany, A!SecondByCode, A!SecondWrongCode, A!SecondByKey, A!SecondWrongKey, A!PasskeyLogin
  <1>2. CASE A!ConfirmWrong(r) \/ A!ChangePassword(r) \/ A!AddPasskey(r) \/ A!RemovePasskey(r) \/ A!RegenerateRecoveryCodes(r)
             \/ A!SetSecondFactor(r) \/ A!CreateKey(r)
    BY <1>2 DEF SignStay, SignMove, A!Ends, A!ConfirmWrong, A!ChangePassword, A!AddPasskey, A!RemovePasskey, A!RegenerateRecoveryCodes,
       A!SetSecondFactor, A!CreateKey
  <1>3. CASE A!SealAgain(r)
    <2>1. UNCHANGED <<spent, plan>> /\ req[r] # None
      BY <1>3 DEF A!SealAgain, A!rows
    <2>2. CASE req[r].again < 2
      <3> DEFINE y == [req[r] EXCEPT !.left = A!Cardinality(codes)]
                 z == [y EXCEPT !.again = @ + 1]
      <3>1. req' = [req EXCEPT ![r] = z]
        BY <1>3, <2>2 DEF A!SealAgain, A!Goes
      <3>2. y \in A!Request /\ y.op = req[r].op /\ y.chal = req[r].chal /\ y.ver = req[r].ver /\ y.ts = req[r].ts /\ y.again = req[r].again
        BY <1>0, <2>1, SignRequest, Zenon
      <3>3. y.again < 3
        BY <1>0, <2>1, <2>2, <3>2 DEF A!Request
      <3> HIDE DEF y
      <3>4. z \in A!Request /\ z.op = y.op /\ z.chal = y.chal /\ z.ver = y.ver /\ z.ts = y.ts
        BY <3>2, <3>3, SignRequest, Zenon
      <3> HIDE DEF z
      <3> QED BY <2>1, <3>1, <3>2, <3>4 DEF SignStay, SignMove, SignLater
    <2>3. CASE ~(req[r].again < 2)
      BY <1>3, <2>1, <2>3 DEF A!SealAgain, A!Ends, SignStay, SignMove
    <2> QED BY <2>2, <2>3
  <1>4. CASE A!SecondVerifies(r)
    <2>1. UNCHANGED <<spent, plan>> /\ req[r] # None
      BY <1>4 DEF A!SecondVerifies, A!MayTry, A!AtSecond
    <2> DEFINE x == [req[r] EXCEPT !.at = "verifying"]
               y == [x EXCEPT !.ver = u.ver]
               z == [y EXCEPT !.off = u.off]
    <2>2. req' = [req EXCEPT ![r] = z]
      BY <1>4 DEF A!SecondVerifies, A!Goes
    <2>3. x \in A!Request /\ x.op = req[r].op /\ x.chal = req[r].chal /\ x.ts = req[r].ts
      BY <1>0, <2>1, SignRequest, Zenon
    <2> HIDE DEF x
    <2>4. y \in A!Request /\ y.op = x.op /\ y.chal = x.chal /\ y.ver = u.ver /\ y.ts = x.ts
      BY <1>0, <2>3, SignRequest, Zenon
    <2> HIDE DEF y
    <2>5. z \in A!Request /\ z.op = y.op /\ z.chal = y.chal /\ z.ver = y.ver /\ z.ts = y.ts
      BY <1>0, <2>4, SignRequest, Zenon
    <2> HIDE DEF z
    <2> QED BY <2>1, <2>2, <2>3, <2>4, <2>5 DEF SignStay, SignMove, SignLater
  <1>5. CASE A!ConfirmVerifies(r) \/ A!ConfirmedWaits(r)
    <2>1. /\ UNCHANGED <<spent, plan>> /\ req[r] # None
          /\ \E x \in {"verifying", "sealed"} : req' = [req EXCEPT ![r] = [req[r] EXCEPT !.at = x]]
      BY <1>5 DEF A!ConfirmVerifies, A!ConfirmedWaits, A!Confirmed, A!AtConfirm, A!Goes, A!rows
    <2>2. PICK x \in {"sealing", "verifying", "sealed"} : req' = [req EXCEPT ![r] = [req[r] EXCEPT !.at = x]]
      BY <2>1
    <2> DEFINE z == [req[r] EXCEPT !.at = x]
    <2>3. z \in A!Request /\ z.op = req[r].op /\ z.chal = req[r].chal /\ z.ver = req[r].ver /\ z.ts = req[r].ts
      BY <1>0, <2>1, SignRequest, Zenon
    <2>4. req' = [req EXCEPT ![r] = z]
      BY <2>2
    <2> HIDE DEF z
    <2> QED BY <2>1, <2>3, <2>4 DEF SignStay, SignMove, SignLater
  <1> QED BY <1>1, <1>2, <1>3, <1>4, <1>5

\* A request as it comes in.
SignComes(r, q) ==
    /\ req[r] = None /\ q \in A!Request /\ req' = [req EXCEPT ![r] = q] /\ q.ver = u.ver /\ q.ts = now
    /\ A!SpendToken(q.op, q.chal) /\ q.chal \in A!Challenges(q.op) /\ plan' = plan

LEMMA SignAsks ==
    ASSUME SignRows, SignChals, SignAsked, NEW r \in SignInRequests, A!Ask(r)
    PROVE  \E q : SignComes(r, q)
  <1>0. PICK op \in plan.ops : \E cred \in A!Secrets(op), c \in A!Challenges(op) :
          /\ A!SpendToken(op, c)
          /\ A!Goes(r, [op |-> op, at |-> IF op = "passkey" THEN "verifying" ELSE "sealing", cred |-> cred, chal |-> c,
                        ts |-> now, ver |-> u.ver, off |-> u.off, left |-> A!Cardinality(codes), again |-> 0])
    BY DEF A!Ask
  <1>1. PICK cred \in A!Secrets(op), c \in A!Challenges(op) :
          /\ A!SpendToken(op, c)
          /\ A!Goes(r, [op |-> op, at |-> IF op = "passkey" THEN "verifying" ELSE "sealing", cred |-> cred, chal |-> c,
                        ts |-> now, ver |-> u.ver, off |-> u.off, left |-> A!Cardinality(codes), again |-> 0])
    BY <1>0
  <1>2. op \in A!SignIns \cup A!Changes
    BY SignPlan DEF SignRows
  <1>3. cred \in A!Cred /\ c \in Nat
    BY <1>2, SignGiven
  <1>4. u.ver \in Nat /\ u.off \in BOOLEAN /\ A!Cardinality(codes) \in Nat /\ now \in 0 .. SignInTime
    BY SignCounted, SignFinite DEF SignRows, SignAccount
  <1> DEFINE q == [op |-> op, at |-> IF op = "passkey" THEN "verifying" ELSE "sealing", cred |-> cred, chal |-> c,
                   ts |-> now, ver |-> u.ver, off |-> u.off, left |-> A!Cardinality(codes), again |-> 0]
  <1>5. q \in A!Request /\ q.op = op /\ q.chal = c /\ q.ver = u.ver /\ q.ts = now
    BY <1>2, <1>3, <1>4 DEF A!Request
  <1>6. req' = [req EXCEPT ![r] = q] /\ req[r] = None /\ plan' = plan
    BY <1>1 DEF A!Goes, A!Ask
  <1> HIDE DEF q
  <1> QED BY <1>1, <1>5, <1>6 DEF SignComes

\* What others do leaves the requests alone.
LEMMA SignAside ==
    ASSUME A!SetPassword \/ A!Disable \/ A!Enable \/ A!UnlockUser \/ A!AdminResetPasskeys \/ A!Recover \/ A!Lapse \/ A!Tick
    PROVE  UNCHANGED <<req, spent, opened, plan>>
  BY DEF A!SetPassword, A!Disable, A!Enable, A!UnlockUser, A!AdminResetPasskeys, A!Recover, A!Lapse, A!Tick, A!rows

LEMMA SignAnyMove ==
    ASSUME SignRows, SignChals, SignAsked, A!Next
    PROVE  \/ UNCHANGED <<req, spent, opened, plan>>
           \/ \E r \in SignInRequests : SignStay(r)
           \/ \E r \in SignInRequests : A!Ask(r) /\ \E q : SignComes(r, q)
  BY SignMoves, SignAsks, SignAside DEF A!Next

LEMMA SignAskedKept == ASSUME SignRows, SignChals, SignAsked, A!Next PROVE SignAsked'
  <1>0. u.ver \in Nat /\ u'.ver \in Nat /\ u'.ver >= u.ver /\ now' >= now /\ now \in Nat /\ now' \in Nat
    BY SignGrows DEF SignRows, SignAccount
  <1>1. /\ req \in [SignInRequests -> A!Request \cup {None}]
        /\ \A r \in SignInRequests : req[r] # None => req[r] \in A!Request /\ req[r].ver <= u.ver /\ req[r].ts <= now /\ req[r].ver \in Nat /\ req[r].ts \in Nat
    BY DEF SignAsked, A!Request
  <1>2. CASE req' = req
    BY <1>0, <1>1, <1>2 DEF SignAsked
  <1>3. ASSUME NEW r \in SignInRequests, NEW q \in A!Request \cup {None}, req' = [req EXCEPT ![r] = q],
               q # None => q.ver \in Nat /\ q.ver <= u.ver /\ q.ts \in Nat /\ q.ts <= now
        PROVE  SignAsked'
    <2>1. req' \in [SignInRequests -> A!Request \cup {None}]
      BY <1>1, <1>3
    <2>2. ASSUME NEW s \in SignInRequests, req'[s] # None PROVE req'[s].ver <= u'.ver /\ req'[s].ts <= now'
      <3>1. CASE s = r
        BY <1>0, <1>1, <1>3, <2>2, <3>1
      <3>2. CASE s # r
        BY <1>0, <1>1, <1>3, <2>2, <3>2
      <3> QED BY <3>1, <3>2
    <2> QED BY <2>1, <2>2 DEF SignAsked
  <1>4. ASSUME NEW r \in SignInRequests, SignStay(r) PROVE SignAsked'
    <2>1. CASE req' = [req EXCEPT ![r] = None]
      BY <1>3, <2>1
    <2>2. CASE req' # [req EXCEPT ![r] = None]
      <3>1. PICK q \in A!Request : SignLater(q, req[r]) /\ req' = [req EXCEPT ![r] = q] /\ req[r] # None
        BY <1>4, <2>2 DEF SignStay, SignMove
      <3>2. q.ver \in Nat /\ q.ver <= u.ver /\ q.ts \in Nat /\ q.ts <= now
        BY <1>0, <1>1, <3>1 DEF SignLater
      <3> QED BY <1>3, <3>1, <3>2
    <2> QED BY <2>1, <2>2
  <1>5. ASSUME NEW r \in SignInRequests, NEW q, SignComes(r, q) PROVE SignAsked'
    <2>1. q \in A!Request \cup {None} /\ req' = [req EXCEPT ![r] = q] /\ q.ver = u.ver /\ q.ts = now
      BY <1>5 DEF SignComes
    <2>2. q.ver \in Nat /\ q.ver <= u.ver /\ q.ts \in Nat /\ q.ts <= now
      BY <1>0, <2>1
    <2> QED BY <1>3, <2>1, <2>2
  <1> QED BY <1>2, <1>4, <1>5, SignAnyMove

LEMMA SignOpens == ASSUME SignTokens, NEW kinds, A!Opens(kinds) PROVE opened' \in [code : Nat, chal : Nat, token : Nat]
  BY DEF SignTokens, A!Opens

LEMMA SignOpenedKept == ASSUME SignTokens, A!Next PROVE opened' \in [code : Nat, chal : Nat, token : Nat]
  <1>1. opened' = opened \/ \E kinds \in {{"code"}, {"code", "chal"}, {"chal"}, {"token"}} : A!Opens(kinds)
    <2>1. CASE \E r \in SignInRequests : A!RecoverRight(r) \/ A!SecondByCode(r) \/ A!SecondByKey(r) \/ A!PasskeyLogin(r)
      BY <2>1 DEF A!RecoverRight, A!SecondByCode, A!SecondByKey, A!PasskeyLogin
    <2>2. CASE \E r \in SignInRequests : \/ A!Ask(r) \/ A!LoginRefused(r) \/ A!LoginWrong(r) \/ A!LoginRight(r) \/ A!SealAgain(r)
                                         \/ A!RecoverRefused(r) \/ A!RecoverWrong(r) \/ A!SecondRefused(r) \/ A!SecondTooMany(r)
                                         \/ A!SecondWrongCode(r) \/ A!SecondVerifies(r) \/ A!SecondWrongKey(r)
      BY <2>2 DEF A!Ask, A!LoginRefused, A!LoginWrong, A!LoginRight, A!SealAgain, A!RecoverRefused, A!RecoverWrong, A!SecondRefused, A!SecondTooMany,
         A!SecondWrongCode, A!SecondVerifies, A!SecondWrongKey
    <2>3. CASE \E r \in SignInRequests : \/ A!ConfirmWrong(r) \/ A!ConfirmVerifies(r) \/ A!ConfirmedWaits(r) \/ A!ChangePassword(r) \/ A!AddPasskey(r)
                                         \/ A!RemovePasskey(r) \/ A!RegenerateRecoveryCodes(r) \/ A!SetSecondFactor(r) \/ A!CreateKey(r)
      BY <2>3 DEF A!ConfirmWrong, A!ConfirmVerifies, A!ConfirmedWaits, A!ChangePassword, A!AddPasskey, A!RemovePasskey, A!RegenerateRecoveryCodes,
         A!SetSecondFactor, A!CreateKey
    <2> QED BY <2>1, <2>2, <2>3, SignAside DEF A!Next
  <1> QED BY <1>1, SignOpens DEF SignTokens

LEMMA SignTokensKept == ASSUME SignRows, SignChals, SignAsked, SignTokens, A!Next PROVE SignTokens'
  <1>0. opened' \in [code : Nat, chal : Nat, token : Nat]
    BY SignOpenedKept
  <1>1. /\ req \in [SignInRequests -> A!Request \cup {None}] /\ spent \subseteq 1 .. MaxTokens
        /\ \A r \in SignInRequests : A!Token(r) => req[r].chal \in spent
        /\ \A r, s \in SignInRequests : A!Token(r) /\ A!Token(s) /\ req[r].chal = req[s].chal => r = s
    BY DEF SignAsked, SignTokens
  <1>2. CASE UNCHANGED <<req, spent>>
    BY <1>0, <1>1, <1>2 DEF SignTokens, A!Token
  <1>3. ASSUME NEW r \in SignInRequests, SignStay(r) PROVE SignTokens'
    <2>1. spent' = spent
      BY <1>3 DEF SignStay
    <2>2. \A s \in SignInRequests : A!Token(s)' => A!Token(s) /\ req'[s].chal = req[s].chal
      <3> SUFFICES ASSUME NEW s \in SignInRequests, A!Token(s)' PROVE A!Token(s) /\ req'[s].chal = req[s].chal
        OBVIOUS
      <3>1. CASE req' = [req EXCEPT ![r] = None]
        BY <1>1, <3>1 DEF A!Token
      <3>2. CASE req' # [req EXCEPT ![r] = None]
        <4>1. PICK q \in A!Request : SignLater(q, req[r]) /\ req' = [req EXCEPT ![r] = q] /\ req[r] # None
          BY <1>3, <3>2 DEF SignStay, SignMove
        <4> QED BY <1>1, <4>1 DEF A!Token, SignLater
      <3> QED BY <3>1, <3>2
    <2> QED BY <1>0, <1>1, <2>1, <2>2 DEF SignTokens
  <1>4. ASSUME NEW r \in SignInRequests, NEW q, SignComes(r, q) PROVE SignTokens'
    <2>1. req' = [req EXCEPT ![r] = q] /\ q \in A!Request /\ A!SpendToken(q.op, q.chal) /\ q.chal \in A!Challenges(q.op)
      BY <1>4 DEF SignComes
    <2>2. CASE q.op = "passkey"
      <3>1. q.chal \notin spent /\ spent' = spent \cup {q.chal} /\ q.chal \in 1 .. MaxTokens
        BY <2>1, <2>2 DEF A!SpendToken, A!Challenges
      <3>2. \A s \in SignInRequests : A!Token(s)' => (s = r /\ req'[s].chal = q.chal) \/ (s # r /\ A!Token(s) /\ req'[s].chal = req[s].chal)
        BY <1>1, <2>1 DEF A!Token
      <3> QED BY <1>0, <1>1, <3>1, <3>2 DEF SignTokens
    <2>3. CASE q.op # "passkey"
      <3>1. spent' = spent
        BY <2>1, <2>3 DEF A!SpendToken
      <3>2. \A s \in SignInRequests : A!Token(s)' => A!Token(s) /\ req'[s].chal = req[s].chal
        BY <1>1, <2>1, <2>3 DEF A!Token
      <3> QED BY <1>0, <1>1, <3>1, <3>2 DEF SignTokens
    <2> QED BY <2>2, <2>3
  <1> QED BY <1>2, <1>3, <1>4, SignAnyMove

\* Challenges.
LEMMA SignNumbers ==
    ASSUME SignRows, SignChals
    PROVE  /\ made.chal \in Nat /\ A!Chals \subseteq 1 .. made.chal /\ made.chal <= MaxChals
           /\ \A n : {c.n : c \in A!Without(n)} = A!Chals \ {n}
           /\ \A n : {c.n : c \in A!Tried(n)} = A!Chals
           /\ \A n : A!Tried(n) \subseteq [n : 1 .. made.chal, tries : 0 .. Tries] \/ ~(n \in A!Chals) \/ A!TriesUsed(n)
  <1>1. made.chal \in 0 .. MaxChals /\ chals \subseteq [n : 1 .. made.chal, tries : 0 .. Tries] /\ MaxChals \in Nat
    BY SignConstants DEF SignRows, SignMade, SignChals
  <1>2. made.chal \in Nat /\ A!Chals \subseteq 1 .. made.chal /\ made.chal <= MaxChals
    BY <1>1 DEF A!Chals
  <1>3. ASSUME NEW n PROVE {c.n : c \in A!Without(n)} = A!Chals \ {n}
    BY DEF A!Chals, A!Without, A!ChalOf
  <1>4. ASSUME NEW n, NEW c \in A!ChalOf(n)
        PROVE  c \in chals /\ c.n = n /\ [c EXCEPT !.tries = @ + 1].n = n /\ [c EXCEPT !.tries = @ + 1] \in A!Tried(n)
    BY <1>1, <1>4 DEF A!ChalOf, A!Tried
  <1>5. ASSUME NEW n PROVE {c.n : c \in A!Tried(n)} = A!Chals
    <2>1. ASSUME NEW x \in A!Tried(n) PROVE x.n \in A!Chals
      <3>1. CASE x \in A!Without(n)
        BY <3>1 DEF A!Without, A!Chals
      <3>2. CASE x \notin A!Without(n)
        <4>1. PICK c \in A!ChalOf(n) : x = [c EXCEPT !.tries = @ + 1]
          BY <2>1, <3>2 DEF A!Tried
        <4> QED BY <1>4, <4>1 DEF A!Chals
      <3> QED BY <3>1, <3>2
    <2>2. ASSUME NEW x \in A!Chals PROVE \E c \in A!Tried(n) : c.n = x
      <3>1. PICK c \in chals : c.n = x
        BY <2>2 DEF A!Chals
      <3>2. CASE x = n
        <4>1. c \in A!ChalOf(n)
          BY <3>1, <3>2 DEF A!ChalOf
        <4> QED BY <1>4, <3>2, <4>1
      <3>3. CASE x # n
        BY <3>1, <3>3 DEF A!Tried, A!Without, A!ChalOf
      <3> QED BY <3>2, <3>3
    <2> QED BY <2>1, <2>2
  <1>6. ASSUME NEW n, n \in A!Chals, ~A!TriesUsed(n) PROVE A!Tried(n) \subseteq [n : 1 .. made.chal, tries : 0 .. Tries]
    <2>1. A!Without(n) \subseteq [n : 1 .. made.chal, tries : 0 .. Tries]
      BY <1>1 DEF A!Without
    <2>2. ASSUME NEW c \in A!ChalOf(n) PROVE [c EXCEPT !.tries = @ + 1] \in [n : 1 .. made.chal, tries : 0 .. Tries]
      <3>1. c \in [n : 1 .. made.chal, tries : 0 .. Tries] /\ ~(c.tries + 1 > Tries) /\ Tries \in Nat
        BY <1>1, <1>4, <1>6, SignConstants DEF A!TriesUsed
      <3> QED BY <3>1
    <2> QED BY <2>1, <2>2 DEF A!Tried
  <1> QED BY <1>2, <1>3, <1>5, <1>6

LEMMA SignNewChallenge ==
    ASSUME SignRows, SignChals, A!NewChallenge, made.chal < MaxChals
    PROVE  /\ made'.chal = made.chal + 1 /\ made'.code = made.code /\ chals' \subseteq [n : 1 .. made'.chal, tries : 0 .. Tries]
           /\ {c.n : c \in chals'} \subseteq A!Chals \cup {made'.chal}
  <1>1. made \in SignMade /\ chals \subseteq [n : 1 .. made.chal, tries : 0 .. Tries] /\ MaxChals \in Nat /\ Tries \in Nat
    BY SignConstants DEF SignRows, SignChals
  <1>2. made' = [made EXCEPT !.chal = @ + 1] /\ chals' \subseteq chals \cup {[n |-> made.chal + 1, tries |-> 0]}
    BY DEF A!NewChallenge, A!Kept
  <1>3. made'.chal = made.chal + 1 /\ made'.code = made.code /\ made.chal \in Nat
    BY <1>1, <1>2 DEF SignMade
  <1>4. [n |-> made.chal + 1, tries |-> 0] \in [n : 1 .. made'.chal, tries : 0 .. Tries]
    BY <1>1, <1>3
  <1>5. [n : 1 .. made.chal, tries : 0 .. Tries] \subseteq [n : 1 .. made'.chal, tries : 0 .. Tries]
    BY <1>3
  <1>6. chals' \subseteq [n : 1 .. made'.chal, tries : 0 .. Tries]
    BY <1>1, <1>2, <1>4, <1>5
  <1>7. {c.n : c \in chals'} \subseteq A!Chals \cup {made'.chal}
    BY <1>2, <1>3 DEF A!Chals
  <1> QED BY <1>3, <1>6, <1>7

\* The challenges after a step: as they were, fewer, a try more, or with a new one.
LEMMA SignChalSteps ==
    ASSUME SignRows, SignChals, A!Next
    PROVE  \/ made'.chal = made.chal /\ chals' \subseteq chals
           \/ made' = made /\ \E r \in SignInRequests : A!MayTry(r) /\ chals' = A!Tried(req[r].chal)
           \/ made.chal < MaxChals /\ A!NewChallenge
  <1>0. made \in SignMade
    BY DEF SignRows
  <1>1. CASE UNCHANGED <<chals, made>>
    BY <1>1
  <1>2. CASE \E r \in SignInRequests : A!LoginRight(r)
    BY <1>2 DEF A!LoginRight
  <1>3. CASE \E r \in SignInRequests : A!SecondWrongCode(r) \/ A!SecondVerifies(r)
    BY <1>3 DEF A!SecondWrongCode, A!SecondVerifies
  <1>4. CASE A!Lapse \/ \E r \in SignInRequests : A!SecondTooMany(r) \/ A!SecondByCode(r) \/ A!SecondByKey(r)
    <2>1. made' = made /\ chals' \subseteq chals
      BY <1>4 DEF A!SecondTooMany, A!SecondByCode, A!SecondByKey, A!Lapse, A!Without
    <2> QED BY <2>1
  <1>5. CASE \E r \in SignInRequests : A!AddPasskey(r) \/ A!RegenerateRecoveryCodes(r)
    <2>1. chals' = chals
      BY <1>5 DEF A!AddPasskey, A!RegenerateRecoveryCodes
    <2>2. made'.chal = made.chal
      <3>1. CASE \E r \in SignInRequests : A!RegenerateRecoveryCodes(r)
        BY <1>0, <3>1 DEF A!RegenerateRecoveryCodes, SignMade
      <3>2. CASE \E r \in SignInRequests : A!AddPasskey(r)
        <4>1. made' = made \/ \E x : made' = [made EXCEPT !.key = @ + 1, !.code = x]
          BY <3>2 DEF A!AddPasskey
        <4>2. ASSUME NEW x PROVE [made EXCEPT !.key = @ + 1, !.code = x].chal = made.chal
          <5> DEFINE y == [made EXCEPT !.key = @ + 1]
          <5>1. y.chal = made.chal /\ y \in SignMade
            BY <1>0 DEF SignMade
          <5>2. [made EXCEPT !.key = @ + 1, !.code = x] = [y EXCEPT !.code = x]
            OBVIOUS
          <5> HIDE DEF y
          <5>3. [y EXCEPT !.code = x].chal = y.chal
            BY <5>1 DEF SignMade
          <5> QED BY <5>1, <5>2, <5>3
        <4> QED BY <4>1, <4>2, Zenon
      <3> QED BY <1>5, <3>1, <3>2
    <2> QED BY <2>1, <2>2
  <1>6. CASE \E r \in SignInRequests : \/ A!Ask(r) \/ A!LoginRefused(r) \/ A!LoginWrong(r) \/ A!SealAgain(r) \/ A!RecoverRefused(r) \/ A!RecoverWrong(r)
                                       \/ A!RecoverRight(r) \/ A!SecondRefused(r) \/ A!SecondWrongKey(r) \/ A!PasskeyLogin(r)
    BY <1>1, <1>6 DEF A!Ask, A!LoginRefused, A!LoginWrong, A!SealAgain, A!RecoverRefused, A!RecoverWrong, A!RecoverRight, A!SecondRefused,
       A!SecondWrongKey, A!PasskeyLogin, A!rows
  <1>7. CASE \E r \in SignInRequests : \/ A!ConfirmWrong(r) \/ A!ConfirmVerifies(r) \/ A!ConfirmedWaits(r) \/ A!ChangePassword(r)
                                       \/ A!RemovePasskey(r) \/ A!SetSecondFactor(r) \/ A!CreateKey(r)
    BY <1>1, <1>7 DEF A!ConfirmWrong, A!ConfirmVerifies, A!ConfirmedWaits, A!ChangePassword, A!RemovePasskey, A!SetSecondFactor, A!CreateKey, A!rows
  <1>8. CASE A!SetPassword \/ A!Disable \/ A!Enable \/ A!UnlockUser \/ A!AdminResetPasskeys \/ A!Recover \/ A!Tick
    BY <1>1, <1>8 DEF A!SetPassword, A!Disable, A!Enable, A!UnlockUser, A!AdminResetPasskeys, A!Recover, A!Tick, A!rows
  <1> QED BY <1>2, <1>3, <1>4, <1>5, <1>6, <1>7, <1>8 DEF A!Next

LEMMA SignChalsKept == ASSUME SignRows, SignChals, A!Next PROVE SignChals'
  <1>1. CASE made'.chal = made.chal /\ chals' \subseteq chals
    BY <1>1 DEF SignChals
  <1>2. CASE made' = made /\ \E r \in SignInRequests : A!MayTry(r) /\ chals' = A!Tried(req[r].chal)
    <2>1. PICK r \in SignInRequests : A!MayTry(r) /\ chals' = A!Tried(req[r].chal)
      BY <1>2
    <2>2. req[r].chal \in A!Chals /\ ~A!TriesUsed(req[r].chal)
      BY <2>1 DEF A!MayTry
    <2>3. A!Tried(req[r].chal) \subseteq [n : 1 .. made.chal, tries : 0 .. Tries]
      BY <2>2, SignNumbers
    <2> QED BY <1>2, <2>1, <2>3 DEF SignChals
  <1>3. CASE made.chal < MaxChals /\ A!NewChallenge
    BY <1>3, SignNewChallenge DEF SignChals
  <1> QED BY <1>1, <1>2, <1>3, SignChalSteps

LEMMA SignInvKept == ASSUME SignInv, A!Next PROVE SignInv'
  <1>1. SignRows /\ SignChals /\ SignFails /\ SignAsked /\ SignTokens
    BY DEF SignInv
  <1> QED BY <1>1, SignRowsKept, SignChalsKept, SignFailsKept, SignAskedKept, SignTokensKept DEF SignInv

\* What is promised of every state.
LEMMA SignHolds ==
    ASSUME SignInv
    PROVE  A!TypeOK /\ A!CodesNeedPasskey /\ A!WithinLimits /\ A!GuessesBounded /\ A!LocksEnd
  <1>1. SignRows /\ SignChals /\ SignFails /\ SignAsked
    BY DEF SignInv
  <1>2. A!TypeOK
    <2>1. \A c \in chals : c.n \in 1 .. made.chal /\ c.tries \in 0 .. Tries
      BY <1>1 DEF SignChals
    <2> QED BY <1>1, <2>1 DEF A!TypeOK, SignRows, SignAccount, SignFails, SignAsked
  <1>3. A!CodesNeedPasskey /\ A!WithinLimits
    <2>1. apiKeys <= MaxApiKeys
      BY <1>1, SignConstants DEF SignRows
    <2>2. A!Cardinality(passkeys) <= MaxPasskeys
      BY <1>1, SignFinite DEF SignRows
    <2> QED BY <1>1, <2>1, <2>2 DEF SignRows, A!WithinLimits
  <1>4. A!GuessesBounded
    <2>1. guesses.lifts \in Nat /\ guesses.n <= MaxFails * guesses.lifts + MaxFails
      BY <1>1 DEF SignFails
    <2>2. MaxFails * (1 + guesses.lifts) = MaxFails * (guesses.lifts + 1)
      BY <2>1
    <2>3. MaxFails * (guesses.lifts + 1) = MaxFails * guesses.lifts + MaxFails
      BY <2>1, SignTimes
    <2> QED BY <2>1, <2>2, <2>3 DEF A!GuessesBounded
  <1>5. A!LocksEnd
    BY <1>1 DEF SignFails, A!LocksEnd
  <1> QED BY <1>2, <1>3, <1>4, <1>5

\* Who makes a session.
LEMMA SignSessions ==
    ASSUME A!Next, last' # last
    PROVE  \E r \in SignInRequests : A!LoginRight(r) \/ A!RecoverRight(r) \/ A!SecondByCode(r) \/ A!SecondByKey(r) \/ A!PasskeyLogin(r) \/ A!ChangePassword(r)
  <1>1. CASE \E r \in SignInRequests : \/ A!Ask(r) \/ A!LoginRefused(r) \/ A!LoginWrong(r) \/ A!SealAgain(r) \/ A!RecoverRefused(r) \/ A!RecoverWrong(r)
                                       \/ A!SecondRefused(r) \/ A!SecondTooMany(r) \/ A!SecondWrongCode(r) \/ A!SecondVerifies(r) \/ A!SecondWrongKey(r)
    BY <1>1 DEF A!Ask, A!LoginRefused, A!LoginWrong, A!SealAgain, A!RecoverRefused, A!RecoverWrong, A!SecondRefused, A!SecondTooMany,
       A!SecondWrongCode, A!SecondVerifies, A!SecondWrongKey, A!rows
  <1>2. CASE \E r \in SignInRequests : \/ A!ConfirmWrong(r) \/ A!ConfirmVerifies(r) \/ A!ConfirmedWaits(r) \/ A!AddPasskey(r) \/ A!RemovePasskey(r)
                                       \/ A!RegenerateRecoveryCodes(r) \/ A!SetSecondFactor(r) \/ A!CreateKey(r)
    BY <1>2 DEF A!ConfirmWrong, A!ConfirmVerifies, A!ConfirmedWaits, A!AddPasskey, A!RemovePasskey, A!RegenerateRecoveryCodes,
       A!SetSecondFactor, A!CreateKey, A!rows
  <1>3. CASE A!SetPassword \/ A!Disable \/ A!Enable \/ A!UnlockUser \/ A!AdminResetPasskeys \/ A!Recover \/ A!Lapse \/ A!Tick
    BY <1>3 DEF A!SetPassword, A!Disable, A!Enable, A!UnlockUser, A!AdminResetPasskeys, A!Recover, A!Lapse, A!Tick, A!rows
  <1> QED BY <1>1, <1>2, <1>3 DEF A!Next

\* What is promised of every step.
LEMMA SignStep == ASSUME SignInv, A!Next PROVE A!RestsOnCredential /\ A!NoSessionAhead
  <1>0. u \in SignAccount /\ u.ver \in Nat /\ \A r \in SignInRequests : req[r] # None => req[r].ver \in Nat /\ req[r].ver <= u.ver
    BY DEF SignInv, SignRows, SignAccount, SignAsked, A!Request
  <1>1. CASE last' = last
    BY <1>1 DEF A!RestsOnCredential, A!NoSessionAhead
  <1>2. CASE last' # last
    <2>1. PICK r \in SignInRequests :
            A!LoginRight(r) \/ A!RecoverRight(r) \/ A!SecondByCode(r) \/ A!SecondByKey(r) \/ A!PasskeyLogin(r) \/ A!ChangePassword(r)
      BY <1>2, SignSessions
    <2>2. req[r] # None
      BY <2>1 DEF A!LoginRight, A!RecoverRight, A!SecondByCode, A!SecondByKey, A!PasskeyLogin, A!ChangePassword, A!MayTry, A!AtSecond, A!Confirmed, A!AtConfirm
    <2>3. CASE A!LoginRight(r)
      <3>1. /\ last' = [n |-> last.n + 1, ver |-> u.ver, via |-> "password", cred |-> req[r].cred.n] /\ ~A!NeedsSecond
            /\ req[r].cred.n = u.pw /\ u' = u
        BY <1>2, <2>3 DEF A!LoginRight, A!SessionFor, A!RightPassword
      <3> QED BY <1>0, <3>1 DEF A!RestsOnCredential, A!NoSessionAhead
    <2>4. CASE A!RecoverRight(r) \/ A!SecondByCode(r)
      <3>1. /\ last' = [n |-> last.n + 1, ver |-> u.ver, via |-> "code", cred |-> req[r].cred.n] /\ u' = u
            /\ req[r].cred.n \in codes /\ codes' = codes \ {req[r].cred.n}
        BY <1>2, <2>4 DEF A!RecoverRight, A!SecondByCode, A!SessionFor, A!Spent
      <3> QED BY <1>0, <3>1 DEF A!RestsOnCredential, A!NoSessionAhead
    <2>5. CASE A!SecondByKey(r) \/ A!PasskeyLogin(r)
      <3>1. /\ last' = [n |-> last.n + 1, ver |-> req[r].ver, via |-> "key", cred |-> req[r].cred.n] /\ u' = u
            /\ req[r].cred.n \in passkeys /\ passkeys' = passkeys
        BY <1>2, <2>5 DEF A!SecondByKey, A!PasskeyLogin, A!SessionFor, A!Asserted
      <3> QED BY <1>0, <2>2, <3>1 DEF A!RestsOnCredential, A!NoSessionAhead
    <2>6. CASE A!ChangePassword(r)
      <3>1. /\ last' = [n |-> last.n + 1, ver |-> req[r].ver + 1, via |-> "change", cred |-> req[r].ver] /\ u.pw < MaxPw
            /\ u' = [u EXCEPT !.pw = @ + 1, !.ver = @ + 1]
        BY <1>2, <2>6 DEF A!ChangePassword, A!VersionAfter
      <3>2. u'.ver = u.ver + 1
        BY <1>0, <3>1, SignChanged, Zenon
      <3>3. /\ last'.ver = req[r].ver + 1 /\ last'.via = "change" /\ last'.cred = req[r].ver
        BY <3>1
      <3>4. req[r].ver \in Nat /\ req[r].ver <= u.ver
        BY <1>0, <2>2
      <3> QED BY <1>0, <3>2, <3>3, <3>4 DEF A!RestsOnCredential, A!NoSessionAhead
    <2> QED BY <2>1, <2>3, <2>4, <2>5, <2>6
  <1> QED BY <1>1, <1>2

-----------------------------------------------------------------------------
\* One-time credentials.
LEMMA SignOneTimeInit == ASSUME A!Init PROVE A!Codes!Init /\ A!Seconds!Init /\ A!Logins!Init
  <1>1. SignRows
    BY SignInit DEF SignInv
  <1>2. made.code \in 0 .. MaxCodes /\ codes \subseteq 1 .. made.code /\ MaxCodes \in Nat /\ CodeSet \in Nat
    BY <1>1, SignConstants DEF SignRows, SignMade
  <1>3. codes = 1 .. made.code
    <2>1. made.code = A!Cardinality(codes) /\ codes = IF plan.keys > 0 THEN 1 .. CodeSet ELSE {}
      BY DEF A!Init
    <2>2. Cardinality(1 .. CodeSet) = CodeSet
      <3>1. Cardinality(1 .. CodeSet) = IF 1 > CodeSet THEN 0 ELSE CodeSet - 1 + 1
        BY <1>2, FS_Interval
      <3> QED BY <1>2, <3>1, SignConstants
    <2>3. Cardinality({}) = 0
      BY FS_EmptySet
    <2> QED BY <2>1, <2>2, <2>3, SignFinite
  <1>4. A!Codes!Init
    <2>1. opened.code = 0
      BY DEF A!Init
    <2>2. codes \in SUBSET (1 .. MaxCodes)
      BY <1>2
    <2> QED BY <1>3, <2>1, <2>2 DEF A!Codes!Init
  <1>5. A!Seconds!Init
    <2>1. A!Chals = {} /\ made.chal = 0 /\ opened.chal = 0
      BY DEF A!Init, A!Chals
    <2> QED BY <2>1 DEF A!Seconds!Init
  <1>6. A!Logins!Init
    <2>1. spent = {} /\ opened.token = 0 /\ {r \in SignInRequests : A!Token(r)} = {}
      BY DEF A!Init, A!Token
    <2> QED BY <2>1 DEF A!Logins!Init
  <1> QED BY <1>4, <1>5, <1>6

\* The sessions counted.
LEMMA SignOpensBy ==
    ASSUME SignTokens, NEW kinds, A!Opens(kinds)
    PROVE  /\ opened'.code = IF "code" \in kinds THEN opened.code + 1 ELSE opened.code
           /\ opened'.chal = IF "chal" \in kinds THEN opened.chal + 1 ELSE opened.chal
           /\ opened'.token = IF "token" \in kinds THEN opened.token + 1 ELSE opened.token
  BY DEF SignTokens, A!Opens

LEMMA SignOpened ==
    ASSUME SignTokens, A!Next
    PROVE  \/ opened' = opened
           \/ \E r \in SignInRequests : \/ A!RecoverRight(r) /\ A!Opens({"code"})
                                        \/ A!SecondByCode(r) /\ A!Opens({"code", "chal"})
                                        \/ A!SecondByKey(r) /\ A!Opens({"chal"}) /\ req[r].chal \in A!Chals
                                        \/ A!PasskeyLogin(r) /\ A!Opens({"token"})
  <1>1. CASE \E r \in SignInRequests : A!RecoverRight(r) \/ A!SecondByCode(r) \/ A!SecondByKey(r) \/ A!PasskeyLogin(r)
    BY <1>1 DEF A!RecoverRight, A!SecondByCode, A!SecondByKey, A!PasskeyLogin
  <1>2. CASE \E r \in SignInRequests : \/ A!Ask(r) \/ A!LoginRefused(r) \/ A!LoginWrong(r) \/ A!LoginRight(r) \/ A!SealAgain(r)
                                       \/ A!RecoverRefused(r) \/ A!RecoverWrong(r) \/ A!SecondRefused(r) \/ A!SecondTooMany(r)
                                       \/ A!SecondWrongCode(r) \/ A!SecondVerifies(r) \/ A!SecondWrongKey(r)
    BY <1>2 DEF A!Ask, A!LoginRefused, A!LoginWrong, A!LoginRight, A!SealAgain, A!RecoverRefused, A!RecoverWrong, A!SecondRefused, A!SecondTooMany,
       A!SecondWrongCode, A!SecondVerifies, A!SecondWrongKey
  <1>3. CASE \E r \in SignInRequests : \/ A!ConfirmWrong(r) \/ A!ConfirmVerifies(r) \/ A!ConfirmedWaits(r) \/ A!ChangePassword(r) \/ A!AddPasskey(r)
                                       \/ A!RemovePasskey(r) \/ A!RegenerateRecoveryCodes(r) \/ A!SetSecondFactor(r) \/ A!CreateKey(r)
    BY <1>3 DEF A!ConfirmWrong, A!ConfirmVerifies, A!ConfirmedWaits, A!ChangePassword, A!AddPasskey, A!RemovePasskey, A!RegenerateRecoveryCodes,
       A!SetSecondFactor, A!CreateKey
  <1> QED BY <1>1, <1>2, <1>3, SignAside DEF A!Next

\* The codes after a step: fewer, or a new set.
LEMMA SignCodeSteps ==
    ASSUME SignRows, SignChals, A!Next
    PROVE  made'.code \in Nat /\ made'.code >= made.code /\ codes' \subseteq codes \cup (made.code + 1 .. made'.code)
  <1>0. made \in SignMade /\ made.code \in Nat
    BY DEF SignRows, SignMade
  <1>1. CASE codes' \subseteq codes /\ made'.code = made.code
    BY <1>0, <1>1
  <1>2. CASE \E r \in SignInRequests : A!LoginRight(r)
    <2>1. codes' = codes /\ (made' = made \/ (made.chal < MaxChals /\ A!NewChallenge))
      BY <1>2 DEF A!LoginRight
    <2> QED BY <1>1, <2>1, SignNewChallenge
  <1>3. CASE \E r \in SignInRequests : A!AddPasskey(r)
    <2> DEFINE first == passkeys = {} \/ codes = {}
    <2>1. CASE UNCHANGED <<codes, made>>
      BY <1>1, <2>1
    <2>2. CASE ~UNCHANGED <<codes, made>>
      <3>1. /\ codes' = (IF first THEN made.code + 1 .. made.code + CodeSet ELSE codes)
            /\ made' = [made EXCEPT !.key = @ + 1, !.code = IF first THEN @ + CodeSet ELSE @]
        BY <1>3, <2>2 DEF A!AddPasskey, A!NewCodes
      <3> DEFINE y == [made EXCEPT !.key = @ + 1]
                 n == IF first THEN made.code + CodeSet ELSE made.code
      <3>2. y \in SignMade /\ y.code = made.code
        BY <1>0 DEF SignMade
      <3>3. made' = [y EXCEPT !.code = n]
        BY <3>1, <3>2
      <3> HIDE DEF y
      <3>4. made'.code = n
        BY <3>2, <3>3 DEF SignMade
      <3>5. CASE first
        <4>1. made'.code = made.code + CodeSet /\ codes' = made.code + 1 .. made'.code /\ CodeSet \in Nat
          BY <3>1, <3>4, <3>5, SignConstants
        <4> QED BY <1>0, <4>1
      <3>6. CASE ~first
        <4>1. made'.code = made.code /\ codes' = codes
          BY <3>1, <3>4, <3>6
        <4> QED BY <1>0, <4>1
      <3> QED BY <3>5, <3>6
    <2> QED BY <2>1, <2>2
  <1>4. CASE \E r \in SignInRequests : A!RegenerateRecoveryCodes(r)
    <2>1. \/ UNCHANGED <<codes, made>>
          \/ codes' = made.code + 1 .. made.code + CodeSet /\ made' = [made EXCEPT !.code = @ + CodeSet]
      BY <1>4 DEF A!RegenerateRecoveryCodes, A!NewCodes
    <2>2. CASE made' = [made EXCEPT !.code = @ + CodeSet] /\ codes' = made.code + 1 .. made.code + CodeSet
      <3>1. made'.code = made.code + CodeSet
        BY <1>0, <2>2 DEF SignMade
      <3> QED BY <1>0, <2>2, <3>1, SignConstants
    <2> QED BY <1>1, <2>1, <2>2
  <1>5. CASE \/ A!AdminResetPasskeys \/ A!Recover
             \/ \E r \in SignInRequests : A!RecoverRight(r) \/ A!SecondByCode(r) \/ A!RemovePasskey(r)
    <2>1. made' = made /\ codes' \subseteq codes
      BY <1>5 DEF A!AdminResetPasskeys, A!Recover, A!RecoverRight, A!SecondByCode, A!RemovePasskey, A!DropPasskeys, A!Spent
    <2> QED BY <1>1, <2>1
  <1>6. CASE \E r \in SignInRequests : A!ConfirmWrong(r) \/ A!ChangePassword(r) \/ A!SetSecondFactor(r) \/ A!CreateKey(r)
    <2>1. made' = made /\ codes' = codes
      BY <1>6 DEF A!ConfirmWrong, A!ChangePassword, A!SetSecondFactor, A!CreateKey
    <2> QED BY <1>1, <2>1
  <1>7. CASE A!SetPassword \/ A!Disable \/ A!Enable \/ A!UnlockUser \/ A!Lapse \/ A!Tick
    <2>1. made' = made /\ codes' = codes
      BY <1>7 DEF A!SetPassword, A!Disable, A!Enable, A!UnlockUser, A!Lapse, A!Tick, A!rows
    <2> QED BY <1>1, <2>1
  <1>8. CASE UNCHANGED <<plan, now, u, made, passkeys, codes, apiKeys>>
    BY <1>1, <1>8
  <1> QED BY <1>2, <1>3, <1>4, <1>5, <1>6, <1>7, <1>8, SignRowsQuiet DEF A!Next

LEMMA SignCodesOnce == ASSUME SignInv, A!Next PROVE A!Codes!Next \/ UNCHANGED A!Codes!oneTimeVars
  <1>1. SignRows /\ SignChals /\ SignTokens /\ SignRows'
    BY SignInvKept DEF SignInv
  <1>2. /\ made.code \in 0 .. MaxCodes /\ made'.code \in 0 .. MaxCodes /\ MaxCodes \in Nat /\ made'.code >= made.code
        /\ codes \subseteq 1 .. made.code /\ codes' \subseteq codes \cup (made.code + 1 .. made'.code)
    BY <1>1, SignCodeSteps, SignConstants DEF SignRows, SignMade
  <1>3. CASE opened'.code = opened.code
    <2>1. 1 .. made.code \subseteq 1 .. made'.code /\ 1 .. made'.code \subseteq 1 .. MaxCodes
      BY <1>2
    <2>2. made.code + 1 .. made'.code \subseteq (1 .. made'.code) \ (1 .. made.code)
      BY <1>2
    <2> QED BY <1>2, <1>3, <2>1, <2>2 DEF A!Codes!Next, A!Codes!Change
  <1>4. ASSUME NEW r \in SignInRequests, \/ A!RecoverRight(r) /\ A!Opens({"code"})
                                         \/ A!SecondByCode(r) /\ A!Opens({"code", "chal"})
        PROVE  A!Codes!Next
    <2>1. req[r].cred.n \in codes /\ codes' = codes \ {req[r].cred.n} /\ made' = made
      BY <1>4 DEF A!RecoverRight, A!SecondByCode, A!Spent
    <2>2. opened'.code = opened.code + 1
      BY <1>1, <1>4, SignOpensBy
    <2>3. req[r].cred.n \in 1 .. MaxCodes
      <3>1. 1 .. made.code \subseteq 1 .. MaxCodes
        BY <1>2
      <3> QED BY <1>2, <2>1, <3>1
    <2> QED BY <2>1, <2>2, <2>3 DEF A!Codes!Next, A!Codes!Use
  <1>5. ASSUME A!Opens({"chal"}) \/ A!Opens({"token"}) PROVE opened'.code = opened.code
    BY <1>1, <1>5, SignOpensBy
  <1>6. CASE opened' = opened
    BY <1>3, <1>6
  <1> QED BY <1>1, <1>3, <1>4, <1>5, <1>6, SignOpened

LEMMA SignSecondsOnce == ASSUME SignInv, A!Next PROVE A!Seconds!Next \/ UNCHANGED A!Seconds!oneTimeVars
  <1>1. SignRows /\ SignChals /\ SignTokens /\ SignRows' /\ SignChals'
    BY SignInvKept DEF SignInv
  <1>2. made.chal \in 0 .. MaxChals /\ MaxChals \in Nat /\ A!Chals \subseteq 1 .. made.chal /\ A!Chals' = {c.n : c \in chals'}
    BY <1>1, SignNumbers, SignConstants DEF SignRows, SignMade, A!Chals
  <1>3. CASE opened'.chal = opened.chal
    <2>1. CASE made'.chal = made.chal /\ chals' \subseteq chals
      <3>1. A!Chals' \subseteq A!Chals
        BY <2>1 DEF A!Chals
      <3>2. 1 .. made.chal \subseteq 1 .. MaxChals
        BY <1>2
      <3> QED BY <1>3, <2>1, <3>1, <3>2 DEF A!Seconds!Next, A!Seconds!Change
    <2>2. CASE made' = made /\ \E r \in SignInRequests : A!MayTry(r) /\ chals' = A!Tried(req[r].chal)
      <3>1. A!Chals' = A!Chals
        BY <1>1, <1>2, <2>2, SignNumbers
      <3> QED BY <1>3, <2>2, <3>1 DEF A!Seconds!oneTimeVars
    <2>3. CASE made.chal < MaxChals /\ A!NewChallenge
      <3>1. made'.chal = made.chal + 1 /\ A!Chals' \subseteq A!Chals \cup {made'.chal}
        BY <1>1, <1>2, <2>3, SignNewChallenge
      <3>2. 1 .. made.chal \subseteq 1 .. made'.chal /\ 1 .. made'.chal \subseteq 1 .. MaxChals /\ made'.chal \in (1 .. made'.chal) \ (1 .. made.chal)
        BY <1>2, <2>3, <3>1
      <3> QED BY <1>3, <3>1, <3>2 DEF A!Seconds!Next, A!Seconds!Change
    <2> QED BY <1>1, <2>1, <2>2, <2>3, SignChalSteps
  <1>4. ASSUME NEW r \in SignInRequests, \/ A!SecondByCode(r) /\ A!Opens({"code", "chal"})
                                         \/ A!SecondByKey(r) /\ A!Opens({"chal"}) /\ req[r].chal \in A!Chals
        PROVE  A!Seconds!Next
    <2>1. req[r].chal \in A!Chals /\ chals' = A!Without(req[r].chal) /\ made' = made
      BY <1>4 DEF A!SecondByCode, A!SecondByKey, A!MayTry
    <2>2. opened'.chal = opened.chal + 1
      BY <1>1, <1>4, SignOpensBy
    <2>3. A!Chals' = A!Chals \ {req[r].chal}
      BY <1>1, <1>2, <2>1, SignNumbers
    <2>4. req[r].chal \in 1 .. MaxChals
      <3>1. 1 .. made.chal \subseteq 1 .. MaxChals
        BY <1>2
      <3> QED BY <1>2, <2>1, <3>1
    <2> QED BY <2>1, <2>2, <2>3, <2>4 DEF A!Seconds!Next, A!Seconds!Use
  <1>5. ASSUME A!Opens({"code"}) \/ A!Opens({"token"}) PROVE opened'.chal = opened.chal
    BY <1>1, <1>5, SignOpensBy
  <1>6. CASE opened' = opened
    BY <1>3, <1>6
  <1> QED BY <1>1, <1>3, <1>4, <1>5, <1>6, SignOpened

\* Usernameless challenges that may still open a session: not spent, or spent by a request under way.
SignLive == ((1 .. MaxTokens) \ spent) \cup {req[r].chal : r \in {x \in SignInRequests : A!Token(x)}}

LEMMA SignLoginsOnce == ASSUME SignInv, A!Next PROVE A!Logins!Next \/ UNCHANGED A!Logins!oneTimeVars
  <1>1. SignRows /\ SignChals /\ SignAsked /\ SignTokens
    BY DEF SignInv
  <1>2. /\ req \in [SignInRequests -> A!Request \cup {None}] /\ spent \subseteq 1 .. MaxTokens
        /\ \A r \in SignInRequests : A!Token(r) => req[r].chal \in spent
        /\ \A r, s \in SignInRequests : A!Token(r) /\ A!Token(s) /\ req[r].chal = req[s].chal => r = s
    BY <1>1 DEF SignAsked, SignTokens
  <1>3. ASSUME SignLive' \subseteq SignLive, opened'.token = opened.token PROVE A!Logins!Next
    <2>1. SignLive' \in SUBSET (SignLive \cup ((1 .. MaxTokens) \ (1 .. MaxTokens)))
      BY <1>3
    <2> QED BY <1>3, <2>1 DEF SignLive, A!Logins!Next, A!Logins!Change
  <1>4. ASSUME NEW r \in SignInRequests, SignStay(r)
        PROVE  /\ spent' = spent /\ \A s \in SignInRequests : A!Token(s)' => A!Token(s) /\ req'[s].chal = req[s].chal
               /\ SignLive' \subseteq SignLive
    <2>1. spent' = spent
      BY <1>4 DEF SignStay
    <2>2. ASSUME NEW s \in SignInRequests, A!Token(s)' PROVE A!Token(s) /\ req'[s].chal = req[s].chal
      <3>1. CASE req' = [req EXCEPT ![r] = None]
        BY <1>2, <2>2, <3>1 DEF A!Token
      <3>2. CASE req' # [req EXCEPT ![r] = None]
        <4>1. PICK q \in A!Request : SignLater(q, req[r]) /\ req' = [req EXCEPT ![r] = q] /\ req[r] # None
          BY <1>4, <3>2 DEF SignStay, SignMove
        <4> QED BY <1>2, <2>2, <4>1 DEF A!Token, SignLater
      <3> QED BY <3>1, <3>2
    <2>3. SignLive' \subseteq SignLive
      BY <2>1, <2>2 DEF SignLive
    <2> QED BY <2>1, <2>2, <2>3
  <1>5. ASSUME UNCHANGED <<req, spent, opened, plan>> PROVE A!Logins!Next
    BY <1>3, <1>5 DEF SignLive, A!Token
  <1>6. ASSUME NEW r \in SignInRequests, A!Ask(r), NEW q, SignComes(r, q) PROVE A!Logins!Next
    <2>1. req' = [req EXCEPT ![r] = q] /\ q \in A!Request /\ A!SpendToken(q.op, q.chal) /\ q.chal \in A!Challenges(q.op) /\ opened' = opened
      BY <1>6 DEF SignComes, A!Ask
    <2>2. CASE q.op = "passkey"
      <3>1. q.chal \notin spent /\ spent' = spent \cup {q.chal} /\ q.chal \in 1 .. MaxTokens
        BY <2>1, <2>2 DEF A!SpendToken, A!Challenges
      <3>2. \A s \in SignInRequests : A!Token(s)' => (req'[s].chal = q.chal) \/ (A!Token(s) /\ req'[s].chal = req[s].chal)
        BY <1>2, <2>1 DEF A!Token
      <3>3. SignLive' \subseteq SignLive
        BY <1>2, <3>1, <3>2 DEF SignLive
      <3> QED BY <1>3, <2>1, <3>3
    <2>3. CASE q.op # "passkey"
      <3>1. spent' = spent
        BY <2>1, <2>3 DEF A!SpendToken
      <3>2. \A s \in SignInRequests : A!Token(s)' => A!Token(s) /\ req'[s].chal = req[s].chal
        BY <1>2, <2>1, <2>3 DEF A!Token
      <3>3. SignLive' \subseteq SignLive
        BY <3>1, <3>2 DEF SignLive
      <3> QED BY <1>3, <2>1, <3>3
    <2> QED BY <2>2, <2>3
  <1>7. ASSUME NEW r \in SignInRequests, A!PasskeyLogin(r), A!Opens({"token"}) PROVE A!Logins!Next
    <2>1. A!Token(r) /\ req' = [req EXCEPT ![r] = None] /\ spent' = spent /\ opened'.token = opened.token + 1
      BY <1>1, <1>7, SignOpensBy DEF A!PasskeyLogin, A!Token, A!Ends
    <2>2. req[r].chal \in spent /\ req[r].chal \in 1 .. MaxTokens
      BY <1>2, <2>1
    <2>3. \A s \in SignInRequests : A!Token(s)' <=> A!Token(s) /\ s # r
      BY <1>2, <2>1 DEF A!Token
    <2>4. \A s \in SignInRequests : s # r => req'[s] = req[s]
      BY <1>2, <2>1
    <2>5. SignLive' = SignLive \ {req[r].chal}
      <3>1. ASSUME NEW x \in SignLive' PROVE x \in SignLive /\ x # req[r].chal
        <4>1. CASE x \in (1 .. MaxTokens) \ spent
          BY <2>2, <4>1 DEF SignLive
        <4>2. CASE x \notin (1 .. MaxTokens) \ spent
          <5>1. PICK s \in SignInRequests : A!Token(s)' /\ x = req'[s].chal
            BY <2>1, <3>1, <4>2 DEF SignLive
          <5> QED BY <1>2, <2>1, <2>3, <2>4, <5>1 DEF SignLive
        <4> QED BY <4>1, <4>2
      <3>2. ASSUME NEW x \in SignLive, x # req[r].chal PROVE x \in SignLive'
        <4>1. CASE x \in (1 .. MaxTokens) \ spent
          BY <2>1, <4>1 DEF SignLive
        <4>2. CASE x \notin (1 .. MaxTokens) \ spent
          <5>1. PICK s \in SignInRequests : A!Token(s) /\ x = req[s].chal
            BY <3>2, <4>2 DEF SignLive
          <5>2. s # r /\ A!Token(s)' /\ req'[s].chal = x
            BY <2>3, <2>4, <3>2, <5>1
          <5> QED BY <5>2 DEF SignLive
        <4> QED BY <4>1, <4>2
      <3> QED BY <3>1, <3>2
    <2>6. req[r].chal \in SignLive
      BY <2>1 DEF SignLive
    <2> QED BY <2>1, <2>2, <2>5, <2>6 DEF SignLive, A!Logins!Next, A!Logins!Use
  <1>8. ASSUME A!Opens({"code"}) \/ A!Opens({"code", "chal"}) \/ A!Opens({"chal"}) PROVE opened'.token = opened.token
    BY <1>1, <1>8, SignOpensBy
  <1>9. CASE \E r \in SignInRequests : SignStay(r)
    <2>1. CASE opened'.token = opened.token
      BY <1>3, <1>4, <1>9, <2>1
    <2>2. CASE opened'.token # opened.token
      BY <1>1, <1>7, <1>8, <2>2, SignOpened
    <2> QED BY <2>1, <2>2
  <1> QED BY <1>1, <1>5, <1>6, <1>9, SignAnyMove

LEMMA SignStutter ==
    ASSUME SignInv, UNCHANGED <<plan, now, u, passkeys, codes, apiKeys, fails, stepFails, chals, spent, made, req, guesses, opened>>
    PROVE  SignInv'
  BY DEF SignInv, SignRows, SignChals, SignFails, SignAsked, SignTokens, A!CodesNeedPasskey, A!Token

-----------------------------------------------------------------------------
\* Whatever the limits, credentials and requests: each recovery code, second-factor challenge and usernameless
\* challenge opens one session at most, and none once it was taken back (directory-do.js takeRecoveryCode,
\* challenges and spent tokens).
THEOREM DirectoryOneTime == Spec => OneTimeKept
  <1> DEFINE Good == part = "signIn" => SignInv
             Steps == part = "signIn" => /\ [A!Codes!Next]_(A!Codes!oneTimeVars)
                                         /\ [A!Seconds!Next]_(A!Seconds!oneTimeVars)
                                         /\ [A!Logins!Next]_(A!Logins!oneTimeVars)
  <1>1. Init => Good
    BY SignInit DEF Init, InitShare, InitSignIn, InitSession, InitLimits, InitImport, InitPage
  <1>2. ASSUME Good, [Next]_vars PROVE Good' /\ [Steps]_vars
    <2>1. CASE InSignIn(A!Next)
      <3>1. A!Next /\ part = "signIn" /\ part' = part /\ SignInv
        BY <1>2, <2>1 DEF InSignIn
      <3>2. [A!Codes!Next]_(A!Codes!oneTimeVars)
        BY <3>1, SignCodesOnce
      <3>3. [A!Seconds!Next]_(A!Seconds!oneTimeVars)
        BY <3>1, SignSecondsOnce
      <3>4. [A!Logins!Next]_(A!Logins!oneTimeVars)
        BY <3>1, SignLoginsOnce
      <3>5. SignInv'
        BY <3>1, SignInvKept
      <3> QED BY <3>1, <3>2, <3>3, <3>4, <3>5
    <2>2. CASE InShare(S!Next) \/ InSession(C!Next) \/ InLimits(L!Next) \/ InImport(I!Next) \/ InPage(P!Next)
      BY <2>2 DEF InShare, InSession, InLimits, InImport, InPage
    <2>3. CASE UNCHANGED vars
      <3>1. UNCHANGED <<part, plan, now, u, passkeys, codes, apiKeys, fails, stepFails, chals, spent, made, req, guesses, opened>>
        BY <2>3 DEF vars
      <3> QED BY <1>2, <2>3, <3>1, SignStutter
    <2> QED BY <1>2, <2>1, <2>2, <2>3 DEF Next
  <1>3. Init => (part = "signIn" => A!Codes!Init /\ A!Seconds!Init /\ A!Logins!Init)
    BY SignOneTimeInit DEF Init, InitShare, InitSignIn, InitSession, InitLimits, InitImport, InitPage
  <1>4. Good /\ [Next]_vars => [Steps]_vars
    BY <1>2
  <1> QED BY <1>1, <1>2, <1>3, <1>4, PTL DEF Spec, OneTimeKept

-----------------------------------------------------------------------------
(***************************************************************************)
(* An import                                                               *)
(***************************************************************************)
\* A set of naturals that is not empty has a least one.
LEMMA LeastOf ==
    ASSUME NEW X \in SUBSET Nat, X # {}
    PROVE  \E x \in X : \A y \in X : x <= y
  <1> DEFINE R == OpToRel(<, Nat)
  <1>1. IsWellFoundedOn(R, Nat)
    BY NatLessThanWellFounded
  <1>2. \A m, n \in Nat : m < n => <<m, n>> \in R
    BY DEF OpToRel
  <1> HIDE DEF R
  <1>3. PICK x \in X : \A y \in X : ~(<<y, x>> \in R)
    BY <1>1, WFMin
  <1>4. \A y \in X : ~(y < x)
    BY <1>2, <1>3
  <1> QED BY <1>3, <1>4

\* A set with 0 and the successor of each of its naturals holds them all.
LEMMA InductionIn ==
    ASSUME NEW X, 0 \in X, \A n \in Nat : n \in X => n + 1 \in X
    PROVE  Nat \subseteq X
  <1> SUFFICES ASSUME Nat \ X # {} PROVE FALSE
    OBVIOUS
  <1>1. PICK x \in Nat \ X : \A y \in Nat \ X : x <= y
    BY LeastOf
  <1>2. x # 0 /\ x - 1 \in Nat /\ x - 1 \in X
    BY <1>1
  <1>3. (x - 1) + 1 = x
    BY <1>1
  <1> QED BY <1>1, <1>2, <1>3

\* The first n of a finite set of numbers are no more than n.
LEMMA FirstCounted ==
    ASSUME NEW X \in SUBSET Nat, IsFiniteSet(X), NEW n \in Int
    PROVE  /\ I!FirstOf(X, n) \subseteq X /\ IsFiniteSet(I!FirstOf(X, n))
           /\ n <= 0 => I!FirstOf(X, n) = {}
           /\ n >= 0 => Cardinality(I!FirstOf(X, n)) <= n
  <1> DEFINE Below(k) == {j \in X : j < k}
             First(m) == {k \in X : Cardinality(Below(k)) < m}
             N == {m \in Nat : IsFiniteSet(First(m)) /\ Cardinality(First(m)) <= m}
  <1>0. ASSUME NEW k PROVE IsFiniteSet(Below(k)) /\ Cardinality(Below(k)) \in Nat
    BY FS_Subset, FS_CardinalityType
  <1>1. \A m : First(m) = I!FirstOf(X, m)
    BY DEF I!FirstOf, I!Cardinality, Cardinality, I!IsFiniteSet, IsFiniteSet
  <1>2. \A k, j : j \in Below(k) <=> j \in X /\ j < k
    OBVIOUS
  <1>3. \A m, k : k \in First(m) <=> k \in X /\ Cardinality(Below(k)) < m
    OBVIOUS
  <1>4. \A m : m \in Nat => (m \in N <=> IsFiniteSet(First(m)) /\ Cardinality(First(m)) <= m)
    OBVIOUS
  <1> HIDE DEF Below, First, N
  <1>5. ASSUME NEW m \in Int, m <= 0 PROVE First(m) = {}
    BY <1>0, <1>3, <1>5
  <1>6. 0 \in N
    <2>1. First(0) = {}
      BY <1>5
    <2>2. IsFiniteSet({}) /\ Cardinality({}) <= 0
      BY FS_EmptySet
    <2> QED BY <1>4, <2>1, <2>2
  <1>7. ASSUME NEW m \in Nat, m \in N PROVE m + 1 \in N
    <2>1. ASSUME NEW k \in X, NEW l \in X, k < l, Cardinality(Below(k)) = m, Cardinality(Below(l)) = m PROVE FALSE
      <3>1. k \notin Below(k) /\ Below(k) \cup {k} \subseteq Below(l)
        <4>1. ~(k < k) /\ \A j \in X : j < k => j < l
          BY <2>1
        <4> QED BY <1>2, <2>1, <4>1
      <3>2. Cardinality(Below(k) \cup {k}) = m + 1
        <4>1. Cardinality(Below(k) \cup {k}) = IF k \in Below(k) THEN Cardinality(Below(k)) ELSE Cardinality(Below(k)) + 1
          BY <1>0, FS_AddElement
        <4> QED BY <2>1, <3>1, <4>1
      <3>3. Cardinality(Below(k) \cup {k}) <= Cardinality(Below(l))
        BY <1>0, <3>1, FS_Subset
      <3> QED BY <2>1, <3>2, <3>3
    <2>2. ASSUME NEW k \in X, NEW l \in X, Cardinality(Below(k)) = m, Cardinality(Below(l)) = m PROVE k = l
      <3>1. ~(k < l) /\ ~(l < k)
        BY <2>1, <2>2
      <3> QED BY <3>1
    <2>3. \A k : k \in First(m + 1) <=> (k \in First(m) \/ (k \in X /\ Cardinality(Below(k)) = m))
      BY <1>0, <1>3
    <2>4. First(m + 1) = First(m) \/ \E k : First(m + 1) = First(m) \cup {k}
      <3>1. CASE \E k \in X : Cardinality(Below(k)) = m
        <4>1. PICK k \in X : Cardinality(Below(k)) = m
          BY <3>1
        <4>2. First(m + 1) = First(m) \cup {k}
          BY <2>2, <2>3, <4>1
        <4> QED BY <4>2
      <3>2. CASE ~ \E k \in X : Cardinality(Below(k)) = m
        BY <2>3, <3>2
      <3> QED BY <3>1, <3>2
    <2>5. IsFiniteSet(First(m)) /\ Cardinality(First(m)) \in Nat /\ Cardinality(First(m)) <= m
      BY <1>4, <1>7, FS_CardinalityType
    <2>6. ASSUME NEW k PROVE IsFiniteSet(First(m) \cup {k}) /\ Cardinality(First(m) \cup {k}) <= m + 1
      <3>1. IsFiniteSet(First(m) \cup {k})
        BY <2>5, FS_AddElement
      <3>2. Cardinality(First(m) \cup {k}) = IF k \in First(m) THEN Cardinality(First(m)) ELSE Cardinality(First(m)) + 1
        BY <2>5, FS_AddElement
      <3> QED BY <2>5, <3>1, <3>2
    <2>7. IsFiniteSet(First(m + 1)) /\ Cardinality(First(m + 1)) <= m + 1
      <3>1. CASE First(m + 1) = First(m)
        BY <2>5, <3>1
      <3>2. CASE First(m + 1) # First(m)
        BY <2>4, <2>6, <3>2
      <3> QED BY <3>1, <3>2
    <2> QED BY <1>4, <2>7
  <1>8. Nat \subseteq N
    BY <1>6, <1>7, InductionIn
  <1>9. First(n) \subseteq X
    BY <1>3
  <1>10. IsFiniteSet(First(n))
    BY <1>9, FS_Subset
  <1>11. n >= 0 => Cardinality(First(n)) <= n
    BY <1>4, <1>8
  <1> QED BY <1>1, <1>5, <1>9, <1>10, <1>11

\* The plan of the users is made one after the other.
LEMMA UsersInOrder ==
    ASSUME NEW doc, Len(doc.users) \in Nat, NEW sys, NEW ds
    PROVE  \E f : /\ f[0] = I!NoPlan /\ I!UsersPlanned(doc, sys, ds) = f[Len(doc.users)]
                  /\ \A i \in 1 .. Len(doc.users) : f[i] = I!PlanUser(f[i - 1], doc, sys, doc.users[i], ds[i])
  <1> DEFINE N == Len(doc.users)
             Step(p, i) == I!PlanUser(p, doc, sys, doc.users[i], ds[i])
             Z == I!NoPlan
             Up(f, n) == f = [i \in 0 .. n |-> IF i = 0 THEN Z ELSE Step(f[i - 1], i)]
             X == {n \in Nat : \E f : Up(f, n)}
  <1>1. I!UsersPlanned(doc, sys, ds) = (CHOOSE f : Up(f, N))[N]
    BY DEF I!UsersPlanned
  <1> HIDE DEF Step, Z
  <1>2. 0 \in X
    <2>1. Up([i \in 0 .. 0 |-> Z], 0)
      OBVIOUS
    <2> QED BY <2>1
  <1>3. ASSUME NEW n \in Nat, n \in X PROVE n + 1 \in X
    <2>1. PICK f : Up(f, n)
      BY <1>3
    <2> DEFINE g == [i \in 0 .. n + 1 |-> IF i = n + 1 THEN Step(f[n], n + 1) ELSE f[i]]
    <2>2. ASSUME NEW i \in 0 .. n + 1 PROVE g[i] = IF i = 0 THEN Z ELSE Step(g[i - 1], i)
      <3>1. CASE i = 0
        BY <2>1, <3>1
      <3>2. CASE i = n + 1
        <4>1. g[i - 1] = f[n] /\ g[i] = Step(f[n], n + 1)
          BY <3>2
        <4> QED BY <3>2, <4>1
      <3>3. CASE i # 0 /\ i # n + 1
        <4>1. i \in 0 .. n /\ i - 1 \in 0 .. n + 1 /\ i - 1 # n + 1
          BY <3>3
        <4>2. g[i] = f[i] /\ g[i - 1] = f[i - 1]
          BY <3>3, <4>1
        <4>3. f[i] = Step(f[i - 1], i)
          BY <2>1, <3>3, <4>1
        <4> QED BY <3>3, <4>2, <4>3
      <3> QED BY <3>1, <3>2, <3>3
    <2>3. g = [i \in 0 .. n + 1 |-> g[i]]
      OBVIOUS
    <2> HIDE DEF g
    <2>4. Up(g, n + 1)
      BY <2>2, <2>3
    <2> QED BY <2>4
  <1> HIDE DEF X
  <1>4. Nat \subseteq X
    BY <1>2, <1>3, InductionIn
  <1>5. \E f : Up(f, N)
    BY <1>4 DEF X
  <1> DEFINE h == CHOOSE f : Up(f, N)
  <1>6. Up(h, N)
    BY <1>5
  <1> HIDE DEF h
  <1>7. h[0] = Z /\ \A i \in 1 .. N : h[i] = Step(h[i - 1], i)
    <2>1. 0 \in 0 .. N /\ \A i \in 1 .. N : i \in 0 .. N /\ i # 0
      OBVIOUS
    <2> HIDE DEF N
    <2>2. h = [i \in 0 .. N |-> IF i = 0 THEN Z ELSE Step(h[i - 1], i)]
      BY <1>6
    <2> QED BY <2>1, <2>2
  <1>8. I!UsersPlanned(doc, sys, ds) = h[N]
    BY <1>1 DEF h
  <1> QED BY <1>7, <1>8 DEF Step, Z

LEMMA ImportFinite == (\A s : I!Cardinality(s) = Cardinality(s)) /\ (\A s : I!IsFiniteSet(s) <=> IsFiniteSet(s))
  BY DEF I!Cardinality, Cardinality, I!IsFiniteSet, IsFiniteSet

ImportRoles == FileRoles \cup {"Default"}
ImportJob == [create : BOOLEAN, role : FileRoles \cup {None}, apiKeys : SUBSET Nat, passkeys : SUBSET Nat, codes : SUBSET Nat, mfa : BOOLEAN]
ImportPlan == [wrong : BOOLEAN, apiKeys : SUBSET Nat, passkeys : SUBSET Nat, codes : SUBSET Nat, gets : [Names -> ImportJob]]

\* The accounts and roles.
ImportInv ==
    /\ left \in I!Plan
    /\ acct \in [Names -> I!Account \cup {None}] /\ \A a \in I!Here : IsFiniteSet(acct[a].passkeys)
    /\ acct[Owner] \in I!Account /\ acct[Owner].kind = "owner"
    /\ role \in [ImportRoles -> 0 .. ImportMost \cup {None}] /\ role["Default"] # None
    /\ I!OneHolder /\ I!RolesThere

\* What an account gets is what it may get, and its passkeys fit.
JobOk(g, a, doc, sys) ==
    /\ g \in ImportJob /\ IsFiniteSet(g.passkeys)
    /\ a \in I!Here => ~g.create /\ g.apiKeys = {} /\ g.codes = {} /\ ~g.mfa /\ (acct[a].kind # "user" => g.role = None)
    /\ g.role # None => I!RoleOk(doc, sys, g.role)
    /\ g.mfa => g.passkeys # {}
    /\ g.passkeys # {} => Cardinality(I!Passkeys(a)) + Cardinality(g.passkeys) <= I!Room(doc, sys, a, I!RoleOf(a, g.role))

\* What is given is held by no account that is here, is marked as taken, and is given once.
Apart(given, held, taken) ==
    \A a \in Names : /\ given[a] \cap held = {} /\ given[a] \subseteq taken
                     /\ \A b \in Names : a # b => given[a] \cap given[b] = {}
PasskeysOf(p) == [a \in Names |-> p.gets[a].passkeys]
CodesOf(p) == [a \in Names |-> p.gets[a].codes]
ApiKeysOf(p) == [a \in Names |-> p.gets[a].apiKeys]
PlanOk(p, doc, sys) ==
    /\ p \in ImportPlan /\ \A a \in Names : JobOk(p.gets[a], a, doc, sys)
    /\ Apart(PasskeysOf(p), I!Held("passkeys"), p.passkeys)
    /\ Apart(CodesOf(p), I!Held("codes"), p.codes)
    /\ ~p.wrong => Apart(ApiKeysOf(p), I!Held("apiKeys"), p.apiKeys)

LEMMA ImportConstants ==
    /\ Owner \in Names /\ ImportPublic \in Names /\ Owner # ImportPublic /\ ImportMost \in Nat /\ ImportMost >= 1
    /\ ImportPlans \subseteq I!Plan /\ Docs \subseteq I!Doc
    /\ None \notin Nat /\ None \notin FileRoles /\ None # "Default" /\ None \notin I!Account
  BY DirectoryAssumption DEF DirectoryAssumption, I!ImportAssumption

LEMMA ImportDocs ==
    ASSUME NEW doc \in Docs
    PROVE  /\ Len(doc.users) \in Nat /\ DOMAIN doc.users = 1 .. Len(doc.users)
           /\ doc.owner \subseteq Nat /\ IsFiniteSet(doc.owner) /\ doc.base \in 0 .. ImportMost
           /\ \A r \in DOMAIN doc.roles : doc.roles[r] \in 0 .. ImportMost
           /\ \A i \in 1 .. Len(doc.users) : /\ doc.users[i].parts \in I!Carried
                                             /\ doc.users[i].parts.passkeys # None => IsFiniteSet(doc.users[i].parts.passkeys)
  <1>1. doc \in I!Doc
    BY ImportConstants
  <1>2. doc.users \in Seq([name : Names, parts : I!Carried]) /\ doc.owner \subseteq Nat /\ doc.base \in 0 .. ImportMost
    BY <1>1 DEF I!Doc
  <1>3. Len(doc.users) \in Nat /\ DOMAIN doc.users = 1 .. Len(doc.users)
    BY <1>2
  <1>4. ASSUME NEW i \in 1 .. Len(doc.users) PROVE doc.users[i].parts \in I!Carried
    <2> DEFINE T == [name : Names, parts : I!Carried]
               us == doc.users
    <2>0. us \in Seq(T) /\ i \in 1 .. Len(us)
      BY <1>2
    <2>1. doc.users[i] \in [name : Names, parts : I!Carried]
      <3> HIDE DEF T
      <3>1. us[i] \in T
        <4> HIDE DEF us
        <4> QED BY <2>0
      <3> QED BY <3>1 DEF T
    <2> QED BY <2>1
  <1>5. \A r \in DOMAIN doc.roles : doc.roles[r] \in 0 .. ImportMost
    <2>1. doc.roles \in UNION {[R -> 0 .. ImportMost] : R \in SUBSET FileRoles}
      BY <1>1 DEF I!Doc
    <2>2. PICK R \in SUBSET FileRoles : doc.roles \in [R -> 0 .. ImportMost]
      BY <2>1
    <2> QED BY <2>2
  <1>6. IsFiniteSet(doc.owner) /\ \A i \in DOMAIN doc.users : doc.users[i].parts.passkeys # None => IsFiniteSet(doc.users[i].parts.passkeys)
    BY DirectoryAssumption, ImportFinite DEF DirectoryAssumption, I!ImportAssumption
  <1> QED BY <1>2, <1>3, <1>4, <1>5, <1>6

\* What the invariant says of one account.
LEMMA ImportAccount ==
    ASSUME ImportInv, NEW a \in Names
    PROVE  /\ acct[a] \in I!Account \cup {None} /\ (a \in I!Here <=> acct[a] # None)
           /\ a \in I!Here => /\ acct[a] \in I!Account /\ acct[a].role \in ImportRoles /\ role[acct[a].role] # None
                              /\ IsFiniteSet(acct[a].passkeys) /\ acct[a].passkeys \subseteq Nat /\ (acct[a].mfa => acct[a].passkeys # {})
           /\ IsFiniteSet(I!Passkeys(a)) /\ I!Passkeys(a) \subseteq Nat /\ Cardinality(I!Passkeys(a)) \in Nat
  <1>1. acct[a] \in I!Account \cup {None} /\ (a \in I!Here <=> acct[a] # None)
    BY DEF ImportInv, I!Here
  <1>2. ASSUME a \in I!Here
        PROVE  /\ acct[a] \in I!Account /\ acct[a].role \in ImportRoles /\ role[acct[a].role] # None
               /\ IsFiniteSet(acct[a].passkeys) /\ acct[a].passkeys \subseteq Nat /\ (acct[a].mfa => acct[a].passkeys # {})
    <2>1. acct[a] \in I!Account
      BY <1>1, <1>2
    <2>2. acct[a].role \in ImportRoles /\ acct[a].passkeys \subseteq Nat
      BY <2>1 DEF I!Account, ImportRoles
    <2> QED BY <1>2, <2>1, <2>2 DEF ImportInv, I!RolesThere
  <1>3. IsFiniteSet(I!Passkeys(a)) /\ I!Passkeys(a) \subseteq Nat
    BY <1>2, FS_EmptySet DEF I!Passkeys
  <1> QED BY <1>1, <1>2, <1>3, FS_CardinalityType

\* A role that is here or comes with the file has a number of passkeys after the import.
LEMMA ImportAfter ==
    ASSUME ImportInv, NEW doc \in Docs, NEW sys, NEW r \in ImportRoles
    PROVE  /\ I!After(doc, sys, r) \in 0 .. ImportMost \cup {None}
           /\ r = "Default" \/ role[r] # None \/ I!RoleOk(doc, sys, r) => I!After(doc, sys, r) \in 0 .. ImportMost
  <1>1. /\ doc.base \in 0 .. ImportMost /\ \A x \in DOMAIN doc.roles : doc.roles[x] \in 0 .. ImportMost
        /\ role[r] \in 0 .. ImportMost \cup {None} /\ role["Default"] # None /\ role["Default"] \in 0 .. ImportMost \cup {None}
    BY ImportDocs DEF ImportInv, ImportRoles
  <1> QED BY <1>1 DEF I!After, I!RoleOk

LEMMA ImportRoom ==
    ASSUME ImportInv, NEW doc \in Docs, NEW sys, NEW a \in Names, NEW r \in FileRoles \cup {None}, r # None => I!RoleOk(doc, sys, r)
    PROVE  /\ I!RoleOf(a, r) \in ImportRoles /\ I!After(doc, sys, I!RoleOf(a, r)) \in 0 .. ImportMost
           /\ I!Room(doc, sys, a, I!RoleOf(a, r)) \in 0 .. ImportMost
           /\ I!Room(doc, sys, a, I!RoleOf(a, r)) = IF a \in I!Here /\ acct[a].kind = "owner" THEN ImportMost ELSE I!After(doc, sys, I!RoleOf(a, r))
  <1>1. I!RoleOf(a, r) \in ImportRoles
    BY ImportAccount DEF I!RoleOf, ImportRoles
  <1>2. I!RoleOf(a, r) = "Default" \/ role[I!RoleOf(a, r)] # None \/ I!RoleOk(doc, sys, I!RoleOf(a, r))
    BY ImportAccount DEF I!RoleOf
  <1>3. I!After(doc, sys, I!RoleOf(a, r)) \in 0 .. ImportMost
    BY <1>1, <1>2, ImportAfter
  <1>4. ImportMost \in Nat /\ None \notin Nat
    BY ImportConstants
  <1>5. I!Room(doc, sys, a, I!RoleOf(a, r)) = IF a \in I!Here /\ acct[a].kind = "owner" THEN ImportMost ELSE I!After(doc, sys, I!RoleOf(a, r))
    BY <1>3, <1>4 DEF I!Room
  <1> QED BY <1>1, <1>3, <1>4, <1>5

\* The passkeys an account takes are of the file, nobody's, and fit.
LEMMA ImportTakes ==
    ASSUME ImportInv, NEW p \in ImportPlan, NEW ks \in SUBSET Nat, IsFiniteSet(ks), NEW a \in Names, NEW max \in Nat,
           IsFiniteSet(p.gets[a].passkeys)
    PROVE  LET t == I!Takes(p, ks, a, max) IN
           /\ t \subseteq Nat /\ IsFiniteSet(t) /\ t \cap (I!Held("passkeys") \cup p.passkeys) = {}
           /\ t # {} => Cardinality(I!Passkeys(a)) + Cardinality(p.gets[a].passkeys) + Cardinality(t) <= max
  <1> DEFINE free == {k \in ks : k \notin I!Held("passkeys") /\ k \notin p.passkeys}
             had == Cardinality(I!Passkeys(a))
             got == Cardinality(p.gets[a].passkeys)
             n == max - had - got
             t == I!Takes(p, ks, a, max)
  <1>1. t = I!FirstOf(free, n)
    BY ImportFinite DEF I!Takes
  <1>2. IsFiniteSet(free) /\ free \in SUBSET Nat
    BY FS_Subset
  <1>3. had \in Nat /\ got \in Nat /\ n \in Int
    BY ImportAccount, FS_CardinalityType
  <1>4. free \cap (I!Held("passkeys") \cup p.passkeys) = {}
    OBVIOUS
  <1>5. t \subseteq free /\ IsFiniteSet(t) /\ (n <= 0 => t = {}) /\ (n >= 0 => Cardinality(t) <= n)
    BY <1>1, <1>2, <1>3, FirstCounted, Zenon
  <1>6. Cardinality(t) \in Nat
    BY <1>5, FS_CardinalityType
  <1>7. t # {} => had + got + Cardinality(t) <= max
    <2> SUFFICES ASSUME t # {} PROVE had + got + Cardinality(t) <= max
      OBVIOUS
    <2>1. ~(n <= 0)
      BY <1>5
    <2>2. Cardinality(t) <= n
      BY <1>3, <1>5, <2>1
    <2> HIDE DEF had, got, t
    <2> QED BY <1>3, <1>6, <2>2
  <1> HIDE DEF t
  <1> QED BY <1>2, <1>4, <1>5, <1>7 DEF t, had, got

\* What an account gets from its entry.
LEMMA ImportJobs ==
    ASSUME ImportInv, NEW doc \in Docs, NEW sys, NEW p, PlanOk(p, doc, sys), NEW i \in 1 .. Len(doc.users), NEW d \in I!Decisions(doc.users[i]), d # None,
           p.gets[d.as] = I!Nothing, ~I!Refused(doc.users[i], d)
    PROVE  LET g == I!Job(p, doc, sys, doc.users[i], d) IN
           /\ JobOk(g, d.as, doc, sys) /\ g.passkeys \cap (I!Held("passkeys") \cup p.passkeys) = {}
           /\ g.codes \cap (I!Held("codes") \cup p.codes) = {}
  <1> DEFINE v == doc.users[i]
             a == d.as
             r == I!RoleGiven(doc, sys, v, d)
             max == I!Room(doc, sys, a, I!RoleOf(a, r))
             pk == IF "passkeys" \in d.parts THEN I!Takes(p, v.parts.passkeys, a, max) ELSE {}
             new == a \notin I!Here
             ks == IF new /\ "apiKeys" \in d.parts THEN v.parts.apiKeys ELSE {}
             cs == IF new /\ "codes" \in d.parts THEN v.parts.codes \ (I!Held("codes") \cup p.codes) ELSE {}
             g == I!Job(p, doc, sys, v, d)
  <1>1. /\ a \in Names /\ v.parts \in I!Carried /\ (v.parts.passkeys # None => IsFiniteSet(v.parts.passkeys))
        /\ \A x \in {"role", "apiKeys", "passkeys", "codes"} : x \in d.parts => v.parts[x] # None
    <2>1. d \in [as : Names, action : {"create", "update"}, parts : {I!InFile(v) \ x : x \in SUBSET left.omit} \ {{}}]
      BY DEF I!Decisions
    <2>2. d.as \in Names /\ d.parts \subseteq I!InFile(v)
      BY <2>1
    <2>3. \A x \in {"role", "apiKeys", "passkeys", "codes"} : x \in I!InFile(v) => v.parts[x] # None
      BY DEF I!InFile
    <2> QED BY <2>2, <2>3, ImportDocs
  <1>2. /\ ("role" \in d.parts => v.parts.role \in FileRoles) /\ ("apiKeys" \in d.parts => v.parts.apiKeys \in SUBSET Nat)
        /\ ("passkeys" \in d.parts => v.parts.passkeys \in SUBSET Nat /\ IsFiniteSet(v.parts.passkeys))
        /\ ("codes" \in d.parts => v.parts.codes \in SUBSET Nat) /\ v.parts.mfa \in BOOLEAN
    BY <1>1 DEF I!Carried, I!Some
  <1>3. r \in FileRoles \cup {None} /\ (r # None => I!RoleOk(doc, sys, r)) /\ (a \in I!Here /\ acct[a].kind = "owner" => r = None)
    BY <1>2 DEF I!RoleGiven, I!GivesRole
  <1>4. a \in I!Here => acct[a].kind # "public"
    BY DEF I!Refused
  <1>5. max \in Nat
    BY <1>1, <1>3, ImportRoom, ImportConstants
  <1>6. I!Nothing.passkeys = {} /\ IsFiniteSet({}) /\ Cardinality({}) = 0 /\ p \in ImportPlan
    BY FS_EmptySet DEF I!Nothing, PlanOk
  <1>7. /\ pk \subseteq Nat /\ IsFiniteSet(pk) /\ pk \cap (I!Held("passkeys") \cup p.passkeys) = {}
        /\ pk # {} => Cardinality(I!Passkeys(a)) + Cardinality(pk) <= max
    <2>1. CASE "passkeys" \in d.parts
      <3> DEFINE l == v.parts.passkeys
      <3>1. l \in SUBSET Nat /\ IsFiniteSet(l) /\ p.gets[a].passkeys = {} /\ pk = I!Takes(p, l, a, max)
        BY <1>2, <1>6, <2>1
      <3> HIDE DEF l, max, pk
      <3>2. /\ pk \subseteq Nat /\ IsFiniteSet(pk) /\ pk \cap (I!Held("passkeys") \cup p.passkeys) = {}
            /\ pk # {} => Cardinality(I!Passkeys(a)) + Cardinality(p.gets[a].passkeys) + Cardinality(pk) <= max
        BY <1>1, <1>5, <1>6, <3>1, ImportTakes, Zenon
      <3>3. Cardinality(I!Passkeys(a)) \in Nat /\ Cardinality(p.gets[a].passkeys) = 0
        BY <1>1, <1>6, <3>1, ImportAccount
      <3> QED BY <3>2, <3>3
    <2>2. CASE "passkeys" \notin d.parts
      BY <1>6, <2>2
    <2> QED BY <2>1, <2>2
  <1>8. ks \in SUBSET Nat /\ cs \in SUBSET Nat /\ cs \cap (I!Held("codes") \cup p.codes) = {} /\ (a \in I!Here => ks = {} /\ cs = {})
    BY <1>2
  <1>9. g = [create |-> new, role |-> r, passkeys |-> pk, mfa |-> new /\ v.parts.mfa /\ pk # {}, apiKeys |-> ks, codes |-> cs]
    BY DEF I!Job
  <1> HIDE DEF r, pk, ks, cs, g, max
  <1>10. /\ g \in ImportJob /\ g.role = r /\ g.passkeys = pk /\ g.apiKeys = ks /\ g.codes = cs /\ (g.create <=> new)
         /\ (g.mfa <=> new /\ v.parts.mfa /\ pk # {})
    BY <1>3, <1>7, <1>8, <1>9 DEF ImportJob
  <1>11. ASSUME a \in I!Here, acct[a].kind # "user" PROVE r = None
    <2>1. acct[a].kind \in {"owner", "public", "user"}
      BY <1>1, <1>11, ImportAccount DEF I!Account
    <2> QED BY <1>3, <1>4, <1>11, <2>1
  <1>12. max = I!Room(doc, sys, a, I!RoleOf(a, g.role))
    BY <1>10 DEF max
  <1>13. JobOk(g, a, doc, sys)
    BY <1>3, <1>7, <1>8, <1>10, <1>11, <1>12 DEF JobOk
  <1> QED BY <1>7, <1>8, <1>10, <1>13 DEF g

\* One account more is given something.
LEMMA ApartWith ==
    ASSUME NEW x, NEW y, NEW held, NEW taken, NEW a \in Names, NEW ks, Apart(x, held, taken), x[a] \subseteq ks,
           (ks \ x[a]) \cap (held \cup taken) = {}, \A b \in Names : y[b] = IF b = a THEN ks ELSE x[b]
    PROVE  Apart(y, held, taken \cup ks)
  <1>1. ks \cap held = {}
    BY DEF Apart
  <1>2. ASSUME NEW b \in Names, b # a PROVE x[b] \cap ks = {}
    <2>1. x[b] \cap x[a] = {} /\ x[b] \subseteq taken
      BY <1>2 DEF Apart
    <2> QED BY <2>1
  <1>3. ASSUME NEW b \in Names PROVE y[b] \cap held = {} /\ y[b] \subseteq taken \cup ks
    BY <1>1 DEF Apart
  <1>4. ASSUME NEW b \in Names, NEW c \in Names, b # c PROVE y[b] \cap y[c] = {}
    BY <1>2, <1>4 DEF Apart
  <1> QED BY <1>3, <1>4 DEF Apart

LEMMA ImportWith ==
    ASSUME NEW doc, NEW sys, NEW p, PlanOk(p, doc, sys), NEW a \in Names, NEW g, JobOk(g, a, doc, sys), NEW wrong \in BOOLEAN,
           p.gets[a].passkeys \subseteq g.passkeys, (g.passkeys \ p.gets[a].passkeys) \cap (I!Held("passkeys") \cup p.passkeys) = {},
           p.gets[a].codes \subseteq g.codes, (g.codes \ p.gets[a].codes) \cap (I!Held("codes") \cup p.codes) = {},
           p.gets[a].apiKeys \subseteq g.apiKeys,
           ~wrong => (g.apiKeys \ p.gets[a].apiKeys) \cap (I!Held("apiKeys") \cup p.apiKeys) = {}
    PROVE  LET q == I!With(p, a, g, wrong) IN
           /\ PlanOk(q, doc, sys) /\ (p.wrong => q.wrong) /\ q.gets[a] = g
           /\ \A b \in Names : b # a => q.gets[b] = p.gets[b]
  <1> DEFINE q == I!With(p, a, g, wrong)
  <1>1. p \in ImportPlan /\ g \in ImportJob
    BY DEF PlanOk, JobOk
  <1>2. /\ q = [wrong |-> p.wrong \/ wrong, apiKeys |-> p.apiKeys \cup g.apiKeys, passkeys |-> p.passkeys \cup g.passkeys,
                codes |-> p.codes \cup g.codes, gets |-> [p.gets EXCEPT ![a] = g]]
    BY DEF I!With
  <1>3. \A b \in Names : [p.gets EXCEPT ![a] = g][b] = IF b = a THEN g ELSE p.gets[b]
    BY <1>1 DEF ImportPlan
  <1>4. [p.gets EXCEPT ![a] = g] \in [Names -> ImportJob]
    BY <1>1 DEF ImportPlan
  <1> HIDE DEF q
  <1>5. /\ (q.wrong <=> p.wrong \/ wrong) /\ q.apiKeys = p.apiKeys \cup g.apiKeys /\ q.passkeys = p.passkeys \cup g.passkeys
        /\ q.codes = p.codes \cup g.codes /\ \A b \in Names : q.gets[b] = IF b = a THEN g ELSE p.gets[b]
    BY <1>2, <1>3
  <1>6. q \in ImportPlan
    <2>1. (p.wrong \/ wrong) \in BOOLEAN
      BY <1>1 DEF ImportPlan
    <2>2. p.apiKeys \cup g.apiKeys \in SUBSET Nat /\ p.passkeys \cup g.passkeys \in SUBSET Nat /\ p.codes \cup g.codes \in SUBSET Nat
      BY <1>1 DEF ImportPlan, ImportJob
    <2> QED BY <1>2, <1>4, <2>1, <2>2 DEF ImportPlan
  <1>7. \A b \in Names : JobOk(q.gets[b], b, doc, sys)
    BY <1>5 DEF PlanOk
  <1>8. Apart(PasskeysOf(q), I!Held("passkeys"), q.passkeys)
    <2>1. \A b \in Names : PasskeysOf(q)[b] = IF b = a THEN g.passkeys ELSE PasskeysOf(p)[b]
      BY <1>5 DEF PasskeysOf
    <2>0. PasskeysOf(p)[a] = p.gets[a].passkeys
      BY DEF PasskeysOf
    <2>2. PasskeysOf(p)[a] \subseteq g.passkeys
      BY <2>0
    <2>3. Apart(PasskeysOf(p), I!Held("passkeys"), p.passkeys)
      BY DEF PlanOk
    <2>4. Apart(PasskeysOf(q), I!Held("passkeys"), p.passkeys \cup g.passkeys)
      <3>1. (g.passkeys \ PasskeysOf(p)[a]) \cap (I!Held("passkeys") \cup p.passkeys) = {}
        BY <2>0
      <3> QED BY <2>1, <2>2, <2>3, <3>1, ApartWith, Zenon
    <2> QED BY <1>5, <2>4
  <1>9. Apart(CodesOf(q), I!Held("codes"), q.codes)
    <2>1. \A b \in Names : CodesOf(q)[b] = IF b = a THEN g.codes ELSE CodesOf(p)[b]
      BY <1>5 DEF CodesOf
    <2>0. CodesOf(p)[a] = p.gets[a].codes
      BY DEF CodesOf
    <2>2. CodesOf(p)[a] \subseteq g.codes
      BY <2>0
    <2>3. Apart(CodesOf(p), I!Held("codes"), p.codes)
      BY DEF PlanOk
    <2>4. Apart(CodesOf(q), I!Held("codes"), p.codes \cup g.codes)
      <3>1. (g.codes \ CodesOf(p)[a]) \cap (I!Held("codes") \cup p.codes) = {}
        BY <2>0
      <3> QED BY <2>1, <2>2, <2>3, <3>1, ApartWith, Zenon
    <2> QED BY <1>5, <2>4
  <1>10. ASSUME ~q.wrong PROVE Apart(ApiKeysOf(q), I!Held("apiKeys"), q.apiKeys)
    <2>1. \A b \in Names : ApiKeysOf(q)[b] = IF b = a THEN g.apiKeys ELSE ApiKeysOf(p)[b]
      BY <1>5 DEF ApiKeysOf
    <2>0. ApiKeysOf(p)[a] = p.gets[a].apiKeys
      BY DEF ApiKeysOf
    <2>2. ApiKeysOf(p)[a] \subseteq g.apiKeys
      BY <2>0
    <2>3. ~p.wrong /\ ~wrong
      BY <1>5, <1>10
    <2>4. Apart(ApiKeysOf(p), I!Held("apiKeys"), p.apiKeys)
      BY <2>3 DEF PlanOk
    <2>5. Apart(ApiKeysOf(q), I!Held("apiKeys"), p.apiKeys \cup g.apiKeys)
      <3>1. (g.apiKeys \ ApiKeysOf(p)[a]) \cap (I!Held("apiKeys") \cup p.apiKeys) = {}
        BY <2>0, <2>3
      <3> QED BY <2>1, <2>2, <2>4, <3>1, ApartWith, Zenon
    <2> QED BY <1>5, <2>5
  <1>11. PlanOk(q, doc, sys)
    BY <1>6, <1>7, <1>8, <1>9, <1>10 DEF PlanOk
  <1> QED BY <1>5, <1>11 DEF q

LEMMA ImportWrong ==
    ASSUME NEW doc, NEW sys, NEW p, PlanOk(p, doc, sys)
    PROVE  PlanOk(I!Wrong(p), doc, sys) /\ I!Wrong(p).wrong /\ I!Wrong(p).gets = p.gets
  <1>1. p \in ImportPlan
    BY DEF PlanOk
  <1>2. /\ I!Wrong(p) \in ImportPlan /\ I!Wrong(p).wrong = TRUE /\ I!Wrong(p).gets = p.gets /\ I!Wrong(p).passkeys = p.passkeys
        /\ I!Wrong(p).codes = p.codes /\ I!Wrong(p).apiKeys = p.apiKeys
    BY <1>1 DEF I!Wrong, ImportPlan
  <1>3. PasskeysOf(I!Wrong(p)) = PasskeysOf(p) /\ CodesOf(I!Wrong(p)) = CodesOf(p)
    BY <1>2 DEF PasskeysOf, CodesOf
  <1> QED BY <1>2, <1>3 DEF PlanOk

\* Nothing is planned at first.
LEMMA ImportNothing == ASSUME NEW doc, NEW sys PROVE PlanOk(I!NoPlan, doc, sys) /\ \A a \in Names : I!NoPlan.gets[a] = I!Nothing
  <1> DEFINE p == I!NoPlan
  <1>1. p = [wrong |-> FALSE, apiKeys |-> {}, passkeys |-> {}, codes |-> {}, gets |-> [a \in Names |-> I!Nothing]]
    BY DEF I!NoPlan
  <1>2. I!Nothing = [create |-> FALSE, role |-> None, apiKeys |-> {}, passkeys |-> {}, codes |-> {}, mfa |-> FALSE]
    BY DEF I!Nothing
  <1>3. I!Nothing \in ImportJob
    BY <1>2 DEF ImportJob
  <1>4. ASSUME NEW a \in Names PROVE JobOk(I!Nothing, a, doc, sys)
    BY <1>2, <1>3, FS_EmptySet DEF JobOk
  <1> HIDE DEF p
  <1>5. p \in ImportPlan /\ \A a \in Names : p.gets[a] = I!Nothing
    BY <1>1, <1>3 DEF ImportPlan
  <1>6. \A a \in Names : PasskeysOf(p)[a] = {} /\ CodesOf(p)[a] = {} /\ ApiKeysOf(p)[a] = {}
    BY <1>2, <1>5 DEF PasskeysOf, CodesOf, ApiKeysOf
  <1>7. PlanOk(p, doc, sys)
    BY <1>4, <1>5, <1>6 DEF PlanOk, Apart
  <1> QED BY <1>5, <1>7 DEF p

\* What the others get is as it was.
OthersKept(p, q, d) == \A b \in Names : d = None \/ b # d.as => q.gets[b] = p.gets[b]

\* One user of the file.
LEMMA ImportUser ==
    ASSUME ImportInv, NEW doc \in Docs, NEW sys, NEW p, PlanOk(p, doc, sys), NEW i \in 1 .. Len(doc.users), NEW d \in I!Decisions(doc.users[i]),
           d # None => p.gets[d.as] = I!Nothing
    PROVE  /\ PlanOk(I!PlanUser(p, doc, sys, doc.users[i], d), doc, sys)
           /\ OthersKept(p, I!PlanUser(p, doc, sys, doc.users[i], d), d)
  <1> DEFINE v == doc.users[i]
             q == I!PlanUser(p, doc, sys, v, d)
             g == I!Job(p, doc, sys, v, d)
             wrong == g.apiKeys \cap (I!Held("apiKeys") \cup p.apiKeys) # {} \/ I!RoleMissing(doc, sys, v, d)
  <1>1. CASE d = None
    BY <1>1 DEF I!PlanUser, OthersKept
  <1>2. CASE d # None /\ I!Refused(v, d)
    <2>1. q = I!Wrong(p)
      BY <1>2 DEF I!PlanUser
    <2> QED BY <2>1, ImportWrong DEF OthersKept
  <1>3. CASE d # None /\ ~I!Refused(v, d)
    <2>1. q = I!With(p, d.as, g, wrong)
      BY <1>3 DEF I!PlanUser
    <2>2. d.as \in Names
      BY <1>3 DEF I!Decisions
    <2>3. /\ JobOk(g, d.as, doc, sys) /\ g.passkeys \cap (I!Held("passkeys") \cup p.passkeys) = {}
          /\ g.codes \cap (I!Held("codes") \cup p.codes) = {}
      BY <1>3, ImportJobs
    <2>4. p.gets[d.as].passkeys = {} /\ p.gets[d.as].codes = {} /\ p.gets[d.as].apiKeys = {}
      BY <1>3 DEF I!Nothing
    <2>5. wrong \in BOOLEAN /\ (~wrong => g.apiKeys \cap (I!Held("apiKeys") \cup p.apiKeys) = {})
      OBVIOUS
    <2> HIDE DEF wrong, g, q
    <2>6. PlanOk(I!With(p, d.as, g, wrong), doc, sys) /\ \A b \in Names : b # d.as => I!With(p, d.as, g, wrong).gets[b] = p.gets[b]
      <3>1. p.gets[d.as].passkeys \subseteq g.passkeys /\ (g.passkeys \ p.gets[d.as].passkeys) \cap (I!Held("passkeys") \cup p.passkeys) = {}
        BY <2>3, <2>4
      <3>2. p.gets[d.as].codes \subseteq g.codes /\ (g.codes \ p.gets[d.as].codes) \cap (I!Held("codes") \cup p.codes) = {}
        BY <2>3, <2>4
      <3>3. p.gets[d.as].apiKeys \subseteq g.apiKeys /\ (~wrong => (g.apiKeys \ p.gets[d.as].apiKeys) \cap (I!Held("apiKeys") \cup p.apiKeys) = {})
        BY <2>4, <2>5
      <3> QED BY <2>2, <2>3, <2>5, <3>1, <3>2, <3>3, ImportWith
    <2> QED BY <1>3, <2>1, <2>6 DEF q, OthersKept
  <1> QED BY <1>1, <1>2, <1>3

\* The owner chooses once for each name.
ImportChosen(doc, ds) ==
    I!OneName(ds) /\ DOMAIN ds = 1 .. Len(doc.users) /\ \A i \in 1 .. Len(doc.users) : ds[i] \in I!Decisions(doc.users[i])

LEMMA ImportUsers ==
    ASSUME ImportInv, NEW doc \in Docs, NEW sys, NEW ds, ImportChosen(doc, ds)
    PROVE  PlanOk(I!UsersPlanned(doc, sys, ds), doc, sys)
  <1> DEFINE N == Len(doc.users)
  <1>0. N \in Nat
    BY ImportDocs
  <1>8. \A p, i, d : /\ PlanOk(p, doc, sys) /\ i \in 1 .. Len(doc.users) /\ d \in I!Decisions(doc.users[i])
                     /\ d # None => p.gets[d.as] = I!Nothing
                     => PlanOk(I!PlanUser(p, doc, sys, doc.users[i], d), doc, sys)
    BY ImportUser, Zenon
  <1>9. \A p, i, d : /\ PlanOk(p, doc, sys) /\ i \in 1 .. Len(doc.users) /\ d \in I!Decisions(doc.users[i])
                     /\ d # None => p.gets[d.as] = I!Nothing
                     => OthersKept(p, I!PlanUser(p, doc, sys, doc.users[i], d), d)
    BY ImportUser, Zenon
  <1>1. PICK f : /\ f[0] = I!NoPlan /\ I!UsersPlanned(doc, sys, ds) = f[N]
                 /\ \A i \in 1 .. N : f[i] = I!PlanUser(f[i - 1], doc, sys, doc.users[i], ds[i])
    BY <1>0, UsersInOrder
  <1> DEFINE Untouched(p, i) == \A j \in 1 .. N : i < j /\ ds[j] # None => p.gets[ds[j].as] = I!Nothing
             X == {i \in Nat : i <= N => PlanOk(f[i], doc, sys) /\ Untouched(f[i], i)}
  <1>2. \A j \in 1 .. N : ds[j] \in I!Decisions(doc.users[j]) /\ (ds[j] # None => ds[j].as \in Names)
    BY DEF ImportChosen, I!Decisions
  <1>3. 0 \in X
    <2>1. PlanOk(f[0], doc, sys) /\ \A a \in Names : f[0].gets[a] = I!Nothing
      BY <1>1, ImportNothing
    <2>2. Untouched(f[0], 0)
      BY <1>2, <2>1
    <2> QED BY <2>1, <2>2
  <1>4. ASSUME NEW n \in Nat, n \in X PROVE n + 1 \in X
    <2> SUFFICES ASSUME n + 1 <= N PROVE PlanOk(f[n + 1], doc, sys) /\ Untouched(f[n + 1], n + 1)
      OBVIOUS
    <2> DEFINE i == n + 1
               d == ds[i]
    <2>1. i \in 1 .. N /\ i - 1 = n /\ PlanOk(f[n], doc, sys) /\ Untouched(f[n], n) /\ n < i
      BY <1>0, <1>4
    <2>2. f[i] = I!PlanUser(f[n], doc, sys, doc.users[i], d)
      BY <1>1, <2>1
    <2>3. d \in I!Decisions(doc.users[i]) /\ (d # None => f[n].gets[d.as] = I!Nothing)
      BY <1>2, <2>1
    <2>4. PlanOk(f[i], doc, sys) /\ \A b \in Names : d = None \/ b # d.as => f[i].gets[b] = f[n].gets[b]
      <3>1. i \in 1 .. Len(doc.users)
        BY <2>1
      <3> HIDE DEF i, d
      <3> DEFINE q == I!PlanUser(f[n], doc, sys, doc.users[i], d)
      <3>2. PlanOk(q, doc, sys)
        BY <1>8, <2>1, <2>3, <3>1, Zenon
      <3>3. OthersKept(f[n], q, d)
        BY <1>9, <2>1, <2>3, <3>1, Zenon
      <3> HIDE DEF q
      <3>4. f[i] = q
        BY <2>2 DEF q
      <3> QED BY <3>2, <3>3, <3>4 DEF OthersKept
    <2>5. ASSUME NEW j \in 1 .. N, i < j, ds[j] # None PROVE f[i].gets[ds[j].as] = I!Nothing
      <3>1. ds[j].as \in Names /\ n < j /\ i # j
        BY <1>2, <2>5
      <3>2. f[n].gets[ds[j].as] = I!Nothing
        BY <2>1, <2>5, <3>1
      <3>3. d # None => ds[j].as # d.as
        BY <2>1, <2>5, <3>1 DEF ImportChosen, I!OneName
      <3> QED BY <2>4, <3>1, <3>2, <3>3
    <2> QED BY <2>4, <2>5
  <1> HIDE DEF X
  <1>5. N \in X
    BY <1>0, <1>3, <1>4, InductionIn
  <1> QED BY <1>0, <1>1, <1>5 DEF X

\* The import as a whole is planned.
LEMMA ImportPlanned ==
    ASSUME ImportInv, NEW doc \in Docs, NEW sys, NEW own \in BOOLEAN, NEW ds, ImportChosen(doc, ds)
    PROVE  /\ PlanOk(I!Planned(doc, sys, own, ds), doc, sys)
           /\ ~I!Planned(doc, sys, own, ds).wrong /\ "ipRules" \in sys /\ I!Shuts(rules \cup doc.rules) => I!Shuts(rules)
  <1> DEFINE p == I!UsersPlanned(doc, sys, ds)
             t == I!Takes(p, doc.owner, Owner, ImportMost)
             was == p.gets[Owner]
             more == [was EXCEPT !.passkeys = @ \cup t]
             q == IF own THEN I!With(p, Owner, more, FALSE) ELSE p
             added == doc.rules \ rules
             locks == "ipRules" \in sys /\ "block" \in added /\ I!Shuts(rules \cup added)
             whole == I!Planned(doc, sys, own, ds)
  <1>1. PlanOk(p, doc, sys) /\ p \in ImportPlan /\ was \in ImportJob /\ JobOk(was, Owner, doc, sys)
    BY ImportUsers, ImportConstants DEF PlanOk, ImportPlan
  <1>2. whole = IF locks THEN I!Wrong(q) ELSE q
    BY DEF I!Planned
  <1>3. Owner \in Names /\ Owner \in I!Here /\ acct[Owner].kind = "owner" /\ ImportMost \in Nat
    BY ImportConstants DEF ImportInv, I!Here
  <1>4. /\ IsFiniteSet(was.passkeys) /\ ~was.create /\ was.apiKeys = {} /\ was.codes = {} /\ ~was.mfa /\ was.role = None
        /\ was.passkeys # {} => Cardinality(I!Passkeys(Owner)) + Cardinality(was.passkeys) <= ImportMost
    BY <1>1, <1>3 DEF JobOk, I!Room
  <1>5. /\ t \subseteq Nat /\ IsFiniteSet(t) /\ t \cap (I!Held("passkeys") \cup p.passkeys) = {}
        /\ t # {} => Cardinality(I!Passkeys(Owner)) + Cardinality(was.passkeys) + Cardinality(t) <= ImportMost
    <2> DEFINE ks == doc.owner
    <2>1. ks \in SUBSET Nat /\ IsFiniteSet(ks)
      BY ImportDocs
    <2> HIDE DEF ks, p
    <2>2. LET s == I!Takes(p, ks, Owner, ImportMost) IN
          /\ s \subseteq Nat /\ IsFiniteSet(s) /\ s \cap (I!Held("passkeys") \cup p.passkeys) = {}
          /\ s # {} => Cardinality(I!Passkeys(Owner)) + Cardinality(p.gets[Owner].passkeys) + Cardinality(s) <= ImportMost
      BY <1>1, <1>3, <1>4, <2>1, ImportTakes, Zenon
    <2> QED BY <2>2 DEF ks
  <1> HIDE DEF p, t
  <1>6. /\ more \in ImportJob /\ more.passkeys = was.passkeys \cup t /\ more.create = was.create /\ more.role = was.role
        /\ more.apiKeys = was.apiKeys /\ more.codes = was.codes /\ more.mfa = was.mfa
    BY <1>1, <1>5 DEF ImportJob
  <1> HIDE DEF was, more
  <1>7. /\ IsFiniteSet(was.passkeys \cup t)
        /\ was.passkeys \cup t # {} => Cardinality(I!Passkeys(Owner)) + Cardinality(was.passkeys \cup t) <= ImportMost
    <2>1. /\ IsFiniteSet(was.passkeys \cup t)
          /\ Cardinality(was.passkeys \cup t) = Cardinality(was.passkeys) + Cardinality(t) - Cardinality(was.passkeys \cap t)
      BY <1>4, <1>5, FS_Union
    <2>2. Cardinality(was.passkeys) \in Nat /\ Cardinality(t) \in Nat /\ Cardinality(was.passkeys \cap t) \in Nat
      BY <1>4, <1>5, FS_CardinalityType, FS_Intersection
    <2>3. Cardinality(I!Passkeys(Owner)) \in Nat
      BY <1>3, ImportAccount
    <2>4. CASE t = {}
      <3>1. was.passkeys \cup t = was.passkeys
        BY <2>4
      <3> QED BY <1>4, <2>1, <3>1
    <2>5. CASE t # {}
      BY <1>3, <1>5, <2>1, <2>2, <2>3, <2>5
    <2> QED BY <2>4, <2>5
  <1>8. JobOk(more, Owner, doc, sys)
    <2>1. I!Room(doc, sys, Owner, I!RoleOf(Owner, more.role)) = ImportMost
      BY <1>3 DEF I!Room
    <2> QED BY <1>4, <1>6, <1>7, <2>1 DEF JobOk
  <1>9. PlanOk(I!With(p, Owner, more, FALSE), doc, sys)
    <2>1. was.passkeys \subseteq more.passkeys /\ (more.passkeys \ was.passkeys) \cap (I!Held("passkeys") \cup p.passkeys) = {}
      BY <1>5, <1>6
    <2>2. was.codes \subseteq more.codes /\ (more.codes \ was.codes) \cap (I!Held("codes") \cup p.codes) = {}
      BY <1>6
    <2>3. was.apiKeys \subseteq more.apiKeys /\ (more.apiKeys \ was.apiKeys) \cap (I!Held("apiKeys") \cup p.apiKeys) = {}
      BY <1>6
    <2>4. FALSE \in BOOLEAN /\ was = p.gets[Owner]
      BY DEF was
    <2>5. LET n == I!With(p, Owner, more, FALSE) IN PlanOk(n, doc, sys)
      BY <1>1, <1>3, <1>8, <2>1, <2>2, <2>3, <2>4, ImportWith
    <2> QED BY <2>5
  <1>10. PlanOk(q, doc, sys)
    BY <1>1, <1>9
  <1> HIDE DEF q, whole
  <1>11. PlanOk(whole, doc, sys) /\ (locks => whole.wrong)
    BY <1>2, <1>10, ImportWrong
  <1>12. I!Shuts(rules \cup doc.rules) /\ ~I!Shuts(rules) /\ "ipRules" \in sys => locks
    <2>1. rules \cup added = rules \cup doc.rules
      OBVIOUS
    <2> QED BY <2>1 DEF I!Shuts
  <1> QED BY <1>11, <1>12 DEF whole

\* An account after it got what it gets: what it had, and that.
ImportHad(a, k) == IF a \in I!Here THEN acct[a][k] ELSE {}
ImportGot(a, g, y) ==
    /\ y \in I!Account \cup {None} /\ (a \in I!Here => y # None)
    /\ y # None => /\ y.role = I!RoleOf(a, g.role) /\ y.passkeys = ImportHad(a, "passkeys") \cup g.passkeys
                   /\ y.codes = ImportHad(a, "codes") \cup g.codes /\ y.apiKeys = ImportHad(a, "apiKeys") \cup g.apiKeys
                   /\ IsFiniteSet(y.passkeys) /\ (y.mfa => y.passkeys # {}) /\ (a \notin I!Here => y.kind = "user")
    /\ a \in I!Here => /\ y.kind = acct[a].kind /\ y.password = acct[a].password /\ y.mfa = acct[a].mfa /\ y.codes = acct[a].codes
                       /\ y.apiKeys = acct[a].apiKeys /\ (acct[a].kind # "user" => y.role = acct[a].role)
LEMMA ImportRecord ==
    ASSUME NEW k \in {"owner", "public", "user"}, NEW w \in {"here", "file"}, NEW r \in ImportRoles, NEW ks \in SUBSET Nat, NEW ps \in SUBSET Nat,
           NEW cs \in SUBSET Nat, NEW m \in BOOLEAN
    PROVE  [kind |-> k, password |-> w, role |-> r, apiKeys |-> ks, passkeys |-> ps, codes |-> cs, mfa |-> m] \in I!Account
  BY DEF I!Account, ImportRoles

LEMMA ImportReceived ==
    ASSUME ImportInv, NEW doc, NEW sys, NEW a \in Names, NEW g, JobOk(g, a, doc, sys)
    PROVE  ImportGot(a, g, I!Received(a, g))
  <1> DEFINE y == I!Received(a, g)
             x == IF g.create THEN I!New("user") ELSE acct[a]
             pw == IF g.create THEN "file" ELSE x.password
             ro == IF g.role # None THEN g.role ELSE x.role
  <1>1. g \in ImportJob /\ IsFiniteSet(g.passkeys) /\ (g.mfa => g.passkeys # {})
        /\ (a \in I!Here => ~g.create /\ g.apiKeys = {} /\ g.codes = {} /\ ~g.mfa /\ (acct[a].kind # "user" => g.role = None))
    BY DEF JobOk
  <1>2. I!New("user") = [kind |-> "user", password |-> "here", role |-> "Default", apiKeys |-> {}, passkeys |-> {}, codes |-> {}, mfa |-> FALSE]
    BY DEF I!New
  <1>3. I!New("user") \in I!Account /\ I!New("user") # None
    <2>1. I!New("user") \in I!Account
      <3> DEFINE k == "user"
                 w == "here"
                 r == "Default"
                 e == {}
                 m == FALSE
      <3>1. k \in {"owner", "public", "user"} /\ w \in {"here", "file"} /\ r \in ImportRoles /\ e \in SUBSET Nat /\ m \in BOOLEAN
        BY DEF ImportRoles
      <3>2. I!New("user") = [kind |-> k, password |-> w, role |-> r, apiKeys |-> e, passkeys |-> e, codes |-> e, mfa |-> m]
        BY <1>2
      <3> HIDE DEF k, w, r, e, m
      <3> QED BY <3>1, <3>2, ImportRecord
    <2> QED BY <2>1, ImportConstants
  <1>4. y = IF x = None THEN None
            ELSE [kind |-> x.kind, password |-> pw, role |-> ro, apiKeys |-> x.apiKeys \cup g.apiKeys, passkeys |-> x.passkeys \cup g.passkeys,
                  codes |-> x.codes \cup g.codes, mfa |-> x.mfa \/ g.mfa]
    BY DEF I!Received
  <1>5. acct[a] \in I!Account \cup {None} /\ (a \in I!Here <=> acct[a] # None)
        /\ (a \in I!Here => IsFiniteSet(acct[a].passkeys) /\ (acct[a].mfa => acct[a].passkeys # {}))
    BY ImportAccount
  <1>6. CASE x = None
    <2>1. y = None /\ a \notin I!Here
      BY <1>1, <1>3, <1>4, <1>5, <1>6
    <2> QED BY <2>1 DEF ImportGot
  <1>7. CASE x # None
    <2>1. x \in I!Account
      BY <1>3, <1>5, <1>7
    <2>2. /\ IsFiniteSet(x.passkeys) /\ (x.mfa => x.passkeys # {}) /\ ro = I!RoleOf(a, g.role)
          /\ x.passkeys = ImportHad(a, "passkeys") /\ x.codes = ImportHad(a, "codes") /\ x.apiKeys = ImportHad(a, "apiKeys")
      <3>1. CASE g.create
        BY <1>1, <1>2, <3>1, FS_EmptySet DEF ImportHad, I!RoleOf
      <3>2. CASE ~g.create
        BY <1>5, <1>7, <3>2 DEF ImportHad, I!RoleOf
      <3> QED BY <3>1, <3>2
    <2>13. a \notin I!Here => x.kind = "user"
      BY <1>2, <1>5, <1>7
    <2>3. a \in I!Here => x = acct[a] /\ pw = acct[a].password /\ (acct[a].kind # "user" => ro = acct[a].role)
      BY <1>1
    <2>4. pw \in {"here", "file"} /\ ro \in FileRoles \cup {"Default"} /\ (x.mfa \/ g.mfa) \in BOOLEAN
      BY <1>1, <2>1 DEF I!Account, ImportJob
    <2>5. IsFiniteSet(x.passkeys \cup g.passkeys)
      BY <1>1, <2>2, FS_Union
    <2> HIDE DEF x, pw, ro, y
    <2>6. y = [kind |-> x.kind, password |-> pw, role |-> ro, apiKeys |-> x.apiKeys \cup g.apiKeys, passkeys |-> x.passkeys \cup g.passkeys,
               codes |-> x.codes \cup g.codes, mfa |-> x.mfa \/ g.mfa]
      BY <1>4, <1>7
    <2>7. x.kind \in {"owner", "public", "user"} /\ x.apiKeys \cup g.apiKeys \in SUBSET Nat /\ x.passkeys \cup g.passkeys \in SUBSET Nat
          /\ x.codes \cup g.codes \in SUBSET Nat
      BY <1>1, <2>1 DEF I!Account, ImportJob
    <2>8. y \in I!Account /\ y # None
      <3>1. y \in I!Account
        BY <2>4, <2>6, <2>7 DEF I!Account
      <3> QED BY <3>1, ImportConstants
    <2>9. /\ y.kind = x.kind /\ y.password = pw /\ y.role = ro /\ y.apiKeys = x.apiKeys \cup g.apiKeys
          /\ y.passkeys = x.passkeys \cup g.passkeys /\ y.codes = x.codes \cup g.codes /\ (y.mfa <=> x.mfa \/ g.mfa)
      BY <2>6
    <2>10. y.mfa => y.passkeys # {}
      BY <1>1, <2>2, <2>9
    <2>11. ASSUME a \in I!Here PROVE y.mfa = acct[a].mfa
      <3>1. ~g.mfa /\ y.mfa = (x.mfa \/ g.mfa) /\ x.mfa \in BOOLEAN
        BY <1>1, <2>1, <2>6, <2>11 DEF I!Account
      <3>2. (x.mfa \/ g.mfa) = x.mfa
        BY <3>1
      <3> QED BY <2>3, <2>11, <3>1, <3>2
    <2>12. ASSUME a \in I!Here PROVE y.codes = acct[a].codes /\ y.apiKeys = acct[a].apiKeys
      BY <1>1, <2>3, <2>9, <2>12
    <2> QED BY <2>2, <2>3, <2>5, <2>8, <2>9, <2>10, <2>11, <2>12, <2>13 DEF y, ImportGot
  <1> QED BY <1>6, <1>7

\* What was apart and gets what is apart stays apart.
LEMMA ApartKept ==
    ASSUME NEW x, NEW y, NEW held, NEW taken, Apart(y, held, taken), \A a \in Names : x[a] \subseteq held,
           \A a, b \in Names : a # b => x[a] \cap x[b] = {}
    PROVE  \A a, b \in Names : a # b => (x[a] \cup y[a]) \cap (x[b] \cup y[b]) = {}
  <1> SUFFICES ASSUME NEW a \in Names, NEW b \in Names, a # b PROVE (x[a] \cup y[a]) \cap (x[b] \cup y[b]) = {}
    OBVIOUS
  <1>1. y[a] \cap held = {} /\ y[b] \cap held = {} /\ y[a] \cap y[b] = {} /\ x[a] \cap x[b] = {} /\ x[a] \subseteq held /\ x[b] \subseteq held
    BY DEF Apart
  <1> QED BY <1>1

LEMMA ImportDone ==
    ASSUME ImportInv, I!ImportData
    PROVE  \E doc \in Docs, sys \in SUBSET {"roles", "ipRules"}, p \in ImportPlan :
              /\ PlanOk(p, doc, sys) /\ ~p.wrong /\ (I!Shuts(rules') => I!Shuts(rules))
              /\ acct' = [a \in Names |-> I!Received(a, p.gets[a])] /\ role' = [r \in DOMAIN role |-> I!After(doc, sys, r)]
              /\ left.imports > 0 /\ left' = [left EXCEPT !.imports = @ - 1]
  <1>1. PICK doc \in Docs, sys \in SUBSET {"roles", "ipRules"}, own \in BOOLEAN :
             \E ds \in {f \in [DOMAIN doc.users -> UNION {I!Decisions(doc.users[i]) : i \in DOMAIN doc.users}] :
                           I!OneName(f) /\ \A i \in DOMAIN f : f[i] \in I!Decisions(doc.users[i])} :
                /\ ~I!Planned(doc, sys, own, ds).wrong
                /\ acct' = [a \in Names |-> I!Received(a, I!Planned(doc, sys, own, ds).gets[a])]
                /\ role' = [r \in DOMAIN role |-> I!After(doc, sys, r)]
                /\ rules' = IF "ipRules" \in sys THEN rules \cup doc.rules ELSE rules
                /\ left' = [left EXCEPT !.imports = @ - 1]
    BY DEF I!ImportData
  <1>2. PICK ds \in {f \in [DOMAIN doc.users -> UNION {I!Decisions(doc.users[i]) : i \in DOMAIN doc.users}] :
                        I!OneName(f) /\ \A i \in DOMAIN f : f[i] \in I!Decisions(doc.users[i])} :
                /\ ~I!Planned(doc, sys, own, ds).wrong
                /\ acct' = [a \in Names |-> I!Received(a, I!Planned(doc, sys, own, ds).gets[a])]
                /\ role' = [r \in DOMAIN role |-> I!After(doc, sys, r)]
                /\ rules' = IF "ipRules" \in sys THEN rules \cup doc.rules ELSE rules
                /\ left' = [left EXCEPT !.imports = @ - 1]
    BY <1>1
  <1> DEFINE p == I!Planned(doc, sys, own, ds)
  <1>3. ImportChosen(doc, ds)
    <2>1. DOMAIN ds = DOMAIN doc.users /\ DOMAIN doc.users = 1 .. Len(doc.users)
      BY ImportDocs
    <2> QED BY <2>1 DEF ImportChosen
  <1>4. PlanOk(p, doc, sys) /\ (~p.wrong /\ "ipRules" \in sys /\ I!Shuts(rules \cup doc.rules) => I!Shuts(rules))
    BY <1>3, ImportPlanned
  <1>5. left.imports > 0
    BY DEF I!ImportData
  <1>6. /\ ~p.wrong /\ acct' = [a \in Names |-> I!Received(a, p.gets[a])] /\ role' = [r \in DOMAIN role |-> I!After(doc, sys, r)]
        /\ rules' = IF "ipRules" \in sys THEN rules \cup doc.rules ELSE rules
        /\ left' = [left EXCEPT !.imports = @ - 1]
    BY <1>2
  <1> HIDE DEF p
  <1>7. I!Shuts(rules') => I!Shuts(rules)
    BY <1>4, <1>6
  <1>8. p \in ImportPlan
    BY <1>4 DEF PlanOk
  <1> QED BY <1>4, <1>5, <1>6, <1>7, <1>8

LEMMA ImportInit == ASSUME I!Init PROVE ImportInv
  <1> DEFINE new(k) == [kind |-> k, password |-> "here", role |-> "Default", apiKeys |-> {}, passkeys |-> {}, codes |-> {}, mfa |-> FALSE]
             o == [new("owner") EXCEPT !.passkeys = {1}]
             p == new("public")
  <1>1. /\ left \in I!Plan /\ role = [r \in ImportRoles |-> IF r = "Default" THEN ImportMost ELSE None]
        /\ acct = [a \in Names |-> IF a = Owner THEN <<o>>[1] ELSE IF a = ImportPublic THEN p ELSE None]
    <2>1. /\ left \in I!Plan /\ role = [r \in ImportRoles |-> IF r = "Default" THEN ImportMost ELSE None]
          /\ acct = [a \in Names |-> IF a = Owner THEN [I!New("owner") EXCEPT !.passkeys = {1}]
                                     ELSE IF a = ImportPublic THEN I!New("public") ELSE None]
      BY ImportConstants DEF I!Init, ImportRoles
    <2>2. I!New("owner") = new("owner") /\ I!New("public") = p
      BY DEF I!New
    <2> QED BY <2>1, <2>2
  <1>2. /\ o \in I!Account /\ o.kind = "owner" /\ o.passkeys = {1} /\ o.role = "Default" /\ o.mfa = FALSE /\ o.codes = {} /\ o.apiKeys = {}
        /\ p \in I!Account /\ p.kind = "public" /\ p.passkeys = {} /\ p.role = "Default" /\ p.mfa = FALSE /\ p.codes = {} /\ p.apiKeys = {}
    <2> DEFINE e == {}
               e1 == {1}
               d == "Default"
               h == "here"
               f == FALSE
               ko == "owner"
               kp == "public"
    <2>1. o = [kind |-> ko, password |-> h, role |-> d, apiKeys |-> e, passkeys |-> e1, codes |-> e, mfa |-> f]
      <3> DEFINE n == new("owner")
      <3>1. n = [kind |-> ko, password |-> h, role |-> d, apiKeys |-> e, passkeys |-> e, codes |-> e, mfa |-> f]
        OBVIOUS
      <3> HIDE DEF n, new, e, e1, d, h, f, ko, kp
      <3>2. [n EXCEPT !.passkeys = e1] = [kind |-> ko, password |-> h, role |-> d, apiKeys |-> e, passkeys |-> e1, codes |-> e, mfa |-> f]
        BY <3>1
      <3>3. o = [n EXCEPT !.passkeys = e1]
        BY DEF o, n, e1
      <3> QED BY <3>2, <3>3
    <2>2. p = [kind |-> kp, password |-> h, role |-> d, apiKeys |-> e, passkeys |-> e, codes |-> e, mfa |-> f]
      OBVIOUS
    <2>3. /\ ko \in {"owner", "public", "user"} /\ kp \in {"owner", "public", "user"} /\ h \in {"here", "file"} /\ d \in ImportRoles
          /\ e \in SUBSET Nat /\ e1 \in SUBSET Nat /\ f \in BOOLEAN
      BY DEF ImportRoles
    <2> HIDE DEF e, e1, d, h, f, ko, kp, o, p, new
    <2>4. o \in I!Account
      BY <2>1, <2>3, ImportRecord
    <2>5. p \in I!Account
      BY <2>2, <2>3, ImportRecord
    <2>6. /\ o.kind = ko /\ o.passkeys = e1 /\ o.role = d /\ o.mfa = f /\ o.codes = e /\ o.apiKeys = e
          /\ p.kind = kp /\ p.passkeys = e /\ p.role = d /\ p.mfa = f /\ p.codes = e /\ p.apiKeys = e
      BY <2>1, <2>2
    <2> QED BY <2>4, <2>5, <2>6 DEF e, e1, d, h, f, ko, kp
  <1> HIDE DEF new, o, p
  <1>3. acct \in [Names -> I!Account \cup {None}]
    BY <1>1, <1>2
  <1>4. ASSUME NEW a \in I!Here PROVE (a = Owner /\ acct[a] = o) \/ (a = ImportPublic /\ acct[a] = p)
    BY <1>1 DEF I!Here
  <1>5. IsFiniteSet({1}) /\ IsFiniteSet({})
    BY FS_Singleton, FS_EmptySet
  <1>6. \A a \in I!Here : IsFiniteSet(acct[a].passkeys)
    BY <1>2, <1>4, <1>5
  <1>7. acct[Owner] \in I!Account /\ acct[Owner].kind = "owner"
    BY <1>1, <1>2, ImportConstants
  <1>8. role \in [ImportRoles -> 0 .. ImportMost \cup {None}] /\ role["Default"] # None
    BY <1>1, ImportConstants DEF ImportRoles
  <1>9. I!OneHolder
    <2> SUFFICES ASSUME NEW a \in I!Here, NEW b \in I!Here, a # b, NEW k \in {"passkeys", "apiKeys", "codes"} PROVE acct[a][k] \cap acct[b][k] = {}
      BY DEF I!OneHolder
    <2>1. acct[a][k] = {} \/ acct[b][k] = {}
      BY <1>2, <1>4
    <2> QED BY <2>1
  <1>10. I!RolesThere
    BY <1>2, <1>4, <1>8 DEF I!RolesThere
  <1> QED BY <1>1, <1>3, <1>6, <1>7, <1>8, <1>9, <1>10 DEF ImportInv

\* An import keeps the invariant, takes no credential, gives no more passkeys than fit and does not shut the owner out.
LEMMA ImportKept ==
    ASSUME ImportInv, I!ImportData
    PROVE  ImportInv' /\ I!KeepsCredentials /\ I!FitsAfter /\ I!NotShutOut
  <1>1. PICK doc \in Docs, sys \in SUBSET {"roles", "ipRules"}, p \in ImportPlan :
              /\ PlanOk(p, doc, sys) /\ ~p.wrong /\ (I!Shuts(rules') => I!Shuts(rules))
              /\ acct' = [a \in Names |-> I!Received(a, p.gets[a])] /\ role' = [r \in DOMAIN role |-> I!After(doc, sys, r)]
              /\ left.imports > 0 /\ left' = [left EXCEPT !.imports = @ - 1]
    BY ImportDone
  <1> DEFINE g(a) == p.gets[a]
  <1>2. \A a \in Names : JobOk(g(a), a, doc, sys)
    BY <1>1 DEF PlanOk
  <1>3. \A a \in Names : ImportGot(a, g(a), acct'[a])
    <2> SUFFICES ASSUME NEW a \in Names PROVE ImportGot(a, g(a), acct'[a])
      OBVIOUS
    <2> DEFINE h == g(a)
    <2>1. JobOk(h, a, doc, sys)
      BY <1>2
    <2>2. acct'[a] = I!Received(a, h)
      BY <1>1
    <2> HIDE DEF h
    <2>3. ImportGot(a, h, I!Received(a, h))
      BY <2>1, ImportReceived, Zenon
    <2> QED BY <2>2, <2>3 DEF h
  <1>4. left \in I!Plan /\ left' \in I!Plan /\ left'.imports = left.imports - 1
    BY <1>1 DEF ImportInv, I!Plan
  <1>5. acct' \in [Names -> I!Account \cup {None}] /\ \A a \in I!Here' : a \in Names /\ acct'[a] # None
    BY <1>1, <1>3 DEF I!Here, ImportGot
  <1>6. \A a \in I!Here' : IsFiniteSet(acct'[a].passkeys)
    BY <1>3, <1>5 DEF ImportGot
  <1>7. acct'[Owner] \in I!Account /\ acct'[Owner].kind = "owner"
    BY <1>3, ImportConstants DEF ImportInv, I!Here, ImportGot
  <1>8. role \in [ImportRoles -> 0 .. ImportMost \cup {None}] /\ "Default" \in ImportRoles
    BY DEF ImportInv, ImportRoles
  <1>9. \A r \in ImportRoles : role'[r] = I!After(doc, sys, r) /\ role'[r] \in 0 .. ImportMost \cup {None}
    BY <1>1, <1>8, ImportAfter
  <1>10. role' \in [ImportRoles -> 0 .. ImportMost \cup {None}] /\ role'["Default"] # None
    <2>1. I!After(doc, sys, "Default") \in 0 .. ImportMost
      BY <1>8, ImportAfter
    <2>2. role'["Default"] # None
      BY <1>8, <1>9, <2>1, ImportConstants
    <2>3. DOMAIN role = ImportRoles /\ role' = [r \in ImportRoles |-> role'[r]]
      BY <1>1, <1>8
    <2> QED BY <1>9, <2>2, <2>3
  <1>11. ASSUME NEW a \in Names
         PROVE  LET r == I!RoleOf(a, g(a).role) IN
                /\ r \in ImportRoles /\ role'[r] = I!After(doc, sys, r) /\ role'[r] # None
                /\ I!Room(doc, sys, a, r) = IF a \in I!Here /\ acct[a].kind = "owner" THEN ImportMost ELSE role'[r]
    <2> DEFINE h == g(a).role
    <2>1. h \in FileRoles \cup {None} /\ (h # None => I!RoleOk(doc, sys, h))
      BY <1>2 DEF JobOk, ImportJob
    <2> HIDE DEF h
    <2>2. /\ I!RoleOf(a, h) \in ImportRoles /\ I!After(doc, sys, I!RoleOf(a, h)) \in 0 .. ImportMost
          /\ I!Room(doc, sys, a, I!RoleOf(a, h)) = IF a \in I!Here /\ acct[a].kind = "owner" THEN ImportMost ELSE I!After(doc, sys, I!RoleOf(a, h))
      BY <2>1, ImportRoom
    <2>3. I!After(doc, sys, I!RoleOf(a, h)) # None
      BY <2>2, ImportConstants
    <2> QED BY <1>9, <2>2, <2>3 DEF h
  <1>12. I!RolesThere'
    <2> SUFFICES ASSUME NEW a \in I!Here' PROVE role'[acct'[a].role] # None /\ (acct'[a].mfa => acct'[a].passkeys # {})
      BY DEF I!RolesThere
    <2> QED BY <1>3, <1>5, <1>11 DEF ImportGot
  <1>13. I!OneHolder'
    <2> DEFINE had(k) == [a \in Names |-> ImportHad(a, k)]
    <2>1. \A k \in {"passkeys", "apiKeys", "codes"} : /\ \A a \in Names : had(k)[a] \subseteq I!Held(k)
                                                      /\ \A a, b \in Names : a # b => had(k)[a] \cap had(k)[b] = {}
      BY DEF ImportInv, I!OneHolder, ImportHad, I!Held
    <2> HIDE DEF had
    <2>2. /\ \A a, b \in Names : a # b => (had("passkeys")[a] \cup PasskeysOf(p)[a]) \cap (had("passkeys")[b] \cup PasskeysOf(p)[b]) = {}
      <3>1. Apart(PasskeysOf(p), I!Held("passkeys"), p.passkeys)
        BY <1>1 DEF PlanOk
      <3> QED BY <2>1, <3>1, ApartKept, Zenon
    <2>3. /\ \A a, b \in Names : a # b => (had("codes")[a] \cup CodesOf(p)[a]) \cap (had("codes")[b] \cup CodesOf(p)[b]) = {}
      <3>1. Apart(CodesOf(p), I!Held("codes"), p.codes)
        BY <1>1 DEF PlanOk
      <3> QED BY <2>1, <3>1, ApartKept, Zenon
    <2>4. /\ \A a, b \in Names : a # b => (had("apiKeys")[a] \cup ApiKeysOf(p)[a]) \cap (had("apiKeys")[b] \cup ApiKeysOf(p)[b]) = {}
      <3>1. Apart(ApiKeysOf(p), I!Held("apiKeys"), p.apiKeys)
        BY <1>1 DEF PlanOk
      <3> QED BY <2>1, <3>1, ApartKept, Zenon
    <2>5. \A a \in I!Here' : /\ a \in Names /\ acct'[a].passkeys = had("passkeys")[a] \cup PasskeysOf(p)[a]
                             /\ acct'[a].codes = had("codes")[a] \cup CodesOf(p)[a] /\ acct'[a].apiKeys = had("apiKeys")[a] \cup ApiKeysOf(p)[a]
      BY <1>3, <1>5 DEF had, PasskeysOf, CodesOf, ApiKeysOf, ImportGot
    <2> SUFFICES ASSUME NEW a \in I!Here', NEW b \in I!Here', a # b, NEW k \in {"passkeys", "apiKeys", "codes"} PROVE acct'[a][k] \cap acct'[b][k] = {}
      BY DEF I!OneHolder
    <2> QED BY <2>2, <2>3, <2>4, <2>5
  <1>14. ImportInv'
    BY <1>4, <1>5, <1>6, <1>7, <1>10, <1>12, <1>13 DEF ImportInv
  <1>15. I!KeepsCredentials
    <2> SUFFICES ASSUME NEW a \in I!Here
                 PROVE  /\ acct'[a] # None
                        /\ [acct'[a] EXCEPT !.role = 0, !.passkeys = {}] = [acct[a] EXCEPT !.role = 0, !.passkeys = {}]
                        /\ acct[a].passkeys \subseteq acct'[a].passkeys /\ (acct[a].kind # "user" => acct'[a].role = acct[a].role)
      BY DEF I!KeepsCredentials
    <2>1. a \in Names /\ acct[a] \in I!Account /\ acct'[a] \in I!Account
      BY <1>3, ImportAccount DEF I!Here, ImportGot
    <2>2. ASSUME NEW x \in I!Account
          PROVE  [x EXCEPT !.role = 0, !.passkeys = {}] = [kind |-> x.kind, password |-> x.password, role |-> 0, apiKeys |-> x.apiKeys, passkeys |-> {},
                                                           codes |-> x.codes, mfa |-> x.mfa]
      <3> DEFINE y == [x EXCEPT !.role = 0]
                 z == [y EXCEPT !.passkeys = {}]
      <3>1. x = [kind |-> x.kind, password |-> x.password, role |-> x.role, apiKeys |-> x.apiKeys, passkeys |-> x.passkeys, codes |-> x.codes,
                 mfa |-> x.mfa]
        BY DEF I!Account
      <3>2. y = [kind |-> x.kind, password |-> x.password, role |-> 0, apiKeys |-> x.apiKeys, passkeys |-> x.passkeys, codes |-> x.codes,
                 mfa |-> x.mfa]
        BY <3>1
      <3>3. [x EXCEPT !.role = 0, !.passkeys = {}] = z
        OBVIOUS
      <3> HIDE DEF y
      <3>4. z = [kind |-> x.kind, password |-> x.password, role |-> 0, apiKeys |-> x.apiKeys, passkeys |-> {}, codes |-> x.codes, mfa |-> x.mfa]
        BY <3>2
      <3> QED BY <3>3, <3>4
    <2>3. [acct'[a] EXCEPT !.role = 0, !.passkeys = {}] = [acct[a] EXCEPT !.role = 0, !.passkeys = {}]
      <3> DEFINE x == acct[a]
                 y == acct'[a]
      <3>1. x.kind = y.kind /\ x.password = y.password /\ x.apiKeys = y.apiKeys /\ x.codes = y.codes /\ x.mfa = y.mfa
        BY <1>3, <2>1 DEF ImportGot
      <3>2. x \in I!Account /\ y \in I!Account
        BY <2>1
      <3> HIDE DEF x, y
      <3>3. [x EXCEPT !.role = 0, !.passkeys = {}] = [y EXCEPT !.role = 0, !.passkeys = {}]
        <4>1. [x EXCEPT !.role = 0, !.passkeys = {}] = [kind |-> x.kind, password |-> x.password, role |-> 0, apiKeys |-> x.apiKeys, passkeys |-> {},
                                                        codes |-> x.codes, mfa |-> x.mfa]
          BY <2>2, <3>2, Zenon
        <4>2. [y EXCEPT !.role = 0, !.passkeys = {}] = [kind |-> y.kind, password |-> y.password, role |-> 0, apiKeys |-> y.apiKeys, passkeys |-> {},
                                                        codes |-> y.codes, mfa |-> y.mfa]
          BY <2>2, <3>2, Zenon
        <4> QED BY <3>1, <4>1, <4>2, Zenon
      <3> QED BY <3>3 DEF x, y
    <2>4. acct[a].passkeys \subseteq acct'[a].passkeys
      BY <1>3, <2>1 DEF ImportHad, ImportGot
    <2> QED BY <1>3, <2>1, <2>3, <2>4 DEF ImportGot
  <1>16. I!FitsAfter
    <2> SUFFICES ASSUME NEW a \in Names, I!Passkeys(a)' # I!Passkeys(a) PROVE Cardinality(I!Passkeys(a)') <= I!Allowed(a)'
      BY ImportFinite DEF I!FitsAfter
    <2>1. I!Passkeys(a) = ImportHad(a, "passkeys") /\ acct'[a] # None /\ I!Passkeys(a)' = ImportHad(a, "passkeys") \cup g(a).passkeys
      BY <1>3 DEF I!Passkeys, ImportHad, I!Here, ImportGot
    <2> DEFINE h == g(a).passkeys
               had == I!Passkeys(a)
               r == I!RoleOf(a, g(a).role)
    <2>2. h # {} /\ IsFiniteSet(h) /\ Cardinality(had) + Cardinality(h) <= I!Room(doc, sys, a, r)
      BY <1>2, <2>1 DEF JobOk
    <2>3. I!Allowed(a)' = I!Room(doc, sys, a, r)
      <3>1. a \in I!Here /\ acct[a].kind = "owner" <=> acct'[a].kind = "owner"
        BY <1>3, <2>1 DEF ImportGot
      <3> QED BY <1>3, <1>11, <2>1, <3>1 DEF I!Allowed, ImportGot
    <2>4. IsFiniteSet(had) /\ Cardinality(had) \in Nat
      BY ImportAccount
    <2> HIDE DEF h, had, r
    <2>5. Cardinality(had \cup h) = Cardinality(had) + Cardinality(h) - Cardinality(had \cap h) /\ Cardinality(had \cap h) \in Nat /\ Cardinality(h) \in Nat
      BY <2>2, <2>4, FS_Union, FS_CardinalityType, FS_Intersection
    <2>6. I!Passkeys(a)' = had \cup h
      BY <2>1 DEF had, h
    <2>7. I!Room(doc, sys, a, r) \in 0 .. ImportMost /\ ImportMost \in Nat
      BY <1>11, <1>9, <1>10, ImportConstants DEF r
    <2> QED BY <2>2, <2>3, <2>4, <2>5, <2>6, <2>7
  <1>17. I!NotShutOut
    BY <1>1 DEF I!NotShutOut
  <1> QED BY <1>14, <1>15, <1>16, <1>17

\* What else happens is no import.
LEMMA ImportActs == ASSUME ImportInv, I!Acts PROVE left' \in I!Plan /\ ~I!Imports
  <1>1. left \in I!Plan /\ left.acts > 0 /\ left' = [left EXCEPT !.acts = @ - 1]
    BY DEF ImportInv, I!Acts
  <1>2. left' \in I!Plan /\ left'.imports = left.imports /\ left.imports \in Nat
    BY <1>1 DEF I!Plan
  <1> QED BY <1>2 DEF I!Imports

\* Accounts that keep what they have, or go, and roles that stay, or are nobody's.
LEMMA ImportLess ==
    ASSUME ImportInv, left' \in I!Plan, acct' \in [Names -> I!Account \cup {None}],
           \A a \in I!Here' : /\ a \in I!Here /\ acct'[a].passkeys = acct[a].passkeys /\ acct'[a].apiKeys = acct[a].apiKeys
                              /\ acct'[a].codes = acct[a].codes /\ acct'[a].mfa = acct[a].mfa /\ role'[acct'[a].role] # None,
           acct'[Owner] \in I!Account, acct'[Owner].kind = "owner",
           role' \in [ImportRoles -> 0 .. ImportMost \cup {None}], role'["Default"] # None
    PROVE  ImportInv'
  <1>1. \A a \in I!Here' : IsFiniteSet(acct'[a].passkeys)
    BY DEF ImportInv
  <1>2. I!OneHolder'
    <2> SUFFICES ASSUME NEW a \in I!Here', NEW b \in I!Here', a # b, NEW k \in {"passkeys", "apiKeys", "codes"} PROVE acct'[a][k] \cap acct'[b][k] = {}
      BY DEF I!OneHolder
    <2>1. acct[a][k] \cap acct[b][k] = {}
      BY DEF ImportInv, I!OneHolder
    <2>2. acct'[a][k] = acct[a][k] /\ acct'[b][k] = acct[b][k]
      OBVIOUS
    <2> QED BY <2>1, <2>2
  <1>3. I!RolesThere'
    <2> SUFFICES ASSUME NEW a \in I!Here' PROVE role'[acct'[a].role] # None /\ (acct'[a].mfa => acct'[a].passkeys # {})
      BY DEF I!RolesThere
    <2> QED BY DEF ImportInv, I!RolesThere
  <1> QED BY <1>1, <1>2, <1>3 DEF ImportInv

LEMMA ImportDropRole == ASSUME ImportInv, NEW r \in DOMAIN role, I!DropRole(r) PROVE ImportInv'
  <1>1. /\ I!Acts /\ r # "Default" /\ role' = [role EXCEPT ![r] = None]
        /\ acct' = [a \in Names |-> IF a \in I!Here /\ acct[a].role = r THEN [acct[a] EXCEPT !.role = "Default"] ELSE acct[a]]
    BY DEF I!DropRole
  <1>2. left' \in I!Plan
    BY <1>1, ImportActs
  <1>3. /\ acct \in [Names -> I!Account \cup {None}] /\ role \in [ImportRoles -> 0 .. ImportMost \cup {None}] /\ role["Default"] # None
        /\ acct[Owner] \in I!Account /\ acct[Owner].kind = "owner"
    BY DEF ImportInv
  <1>4. /\ role' \in [ImportRoles -> 0 .. ImportMost \cup {None}] /\ role'["Default"] # None
        /\ \A x \in ImportRoles : x # r => role'[x] = role[x]
    BY <1>1, <1>3 DEF ImportRoles
  <1>5. ASSUME NEW a \in Names
        PROVE  /\ acct'[a] \in I!Account \cup {None} /\ (acct'[a] = None => acct[a] = None)
               /\ acct[a] # None => /\ acct'[a] \in I!Account /\ acct'[a].passkeys = acct[a].passkeys /\ acct'[a].apiKeys = acct[a].apiKeys
                                    /\ acct'[a].codes = acct[a].codes /\ acct'[a].mfa = acct[a].mfa /\ acct'[a].kind = acct[a].kind
                                    /\ acct'[a].role = IF acct[a].role = r THEN "Default" ELSE acct[a].role
    <2>1. CASE a \in I!Here /\ acct[a].role = r
      <3> DEFINE x == acct[a]
                 y == [x EXCEPT !.role = "Default"]
      <3>1. x \in I!Account /\ acct'[a] = y
        BY <1>1, <2>1, ImportAccount
      <3> HIDE DEF x
      <3>2. /\ y \in I!Account /\ y.passkeys = x.passkeys /\ y.apiKeys = x.apiKeys /\ y.codes = x.codes /\ y.mfa = x.mfa /\ y.kind = x.kind
            /\ y.role = "Default"
        BY <3>1 DEF I!Account
      <3>3. y # None
        BY <3>2, ImportConstants
      <3> HIDE DEF y
      <3> QED BY <2>1, <3>1, <3>2, <3>3 DEF x
    <2>2. CASE ~(a \in I!Here /\ acct[a].role = r)
      <3>1. acct'[a] = acct[a] /\ acct[a] \in I!Account \cup {None} /\ (acct[a] # None => acct[a].role # r)
        BY <1>1, <1>3, <2>2 DEF I!Here
      <3> QED BY <3>1
    <2> QED BY <2>1, <2>2
  <1>6. acct' \in [Names -> I!Account \cup {None}]
    BY <1>1, <1>5
  <1>7. acct'[Owner] \in I!Account /\ acct'[Owner].kind = "owner"
    BY <1>3, <1>5, ImportConstants
  <1>8. ASSUME NEW a \in I!Here'
        PROVE  /\ a \in I!Here /\ acct'[a].passkeys = acct[a].passkeys /\ acct'[a].apiKeys = acct[a].apiKeys
               /\ acct'[a].codes = acct[a].codes /\ acct'[a].mfa = acct[a].mfa /\ role'[acct'[a].role] # None
    <2>1. a \in Names /\ acct'[a] # None
      BY DEF I!Here
    <2>2. acct[a] # None
      <3> SUFFICES ASSUME acct[a] = None PROVE FALSE
        OBVIOUS
      <3>1. acct'[a] = None
        BY <1>1, <2>1 DEF I!Here
      <3> QED BY <2>1, <3>1
    <2>3. acct[a].role \in ImportRoles /\ role[acct[a].role] # None /\ a \in I!Here
      BY <2>1, <2>2, ImportAccount
    <2> QED BY <1>4, <1>5, <2>1, <2>2, <2>3
  <1> QED BY <1>2, <1>4, <1>6, <1>7, <1>8, ImportLess

LEMMA ImportDropUser == ASSUME ImportInv, NEW b \in Names, I!DropUser(b) PROVE ImportInv'
  <1>1. I!Acts /\ b \in I!Here /\ acct[b].kind = "user" /\ acct' = [acct EXCEPT ![b] = None] /\ role' = role
    BY DEF I!DropUser
  <1>2. left' \in I!Plan
    BY <1>1, ImportActs
  <1>3. /\ acct \in [Names -> I!Account \cup {None}] /\ role \in [ImportRoles -> 0 .. ImportMost \cup {None}] /\ role["Default"] # None
        /\ acct[Owner] \in I!Account /\ acct[Owner].kind = "owner"
    BY DEF ImportInv
  <1>4. acct' \in [Names -> I!Account \cup {None}]
    BY <1>1, <1>3
  <1>5. acct'[Owner] = acct[Owner]
    BY <1>1, <1>3, ImportConstants
  <1>6. ASSUME NEW a \in I!Here' PROVE a \in I!Here /\ acct'[a] = acct[a]
    BY <1>1, <1>3 DEF I!Here
  <1>7. \A a \in I!Here : role[acct[a].role] # None
    BY DEF ImportInv, I!RolesThere
  <1> QED BY <1>1, <1>2, <1>3, <1>4, <1>5, <1>6, <1>7, ImportLess

LEMMA ImportSame == ASSUME ImportInv, left' \in I!Plan, UNCHANGED <<acct, role>> PROVE ImportInv'
  <1>1. \A a \in I!Here' : a \in I!Here
    BY DEF I!Here
  <1> QED BY <1>1, ImportLess DEF ImportInv, I!RolesThere

\* A step of the part keeps its invariant and its action properties.
LEMMA ImportStep == ASSUME ImportInv, I!Next PROVE ImportInv' /\ I!KeepsCredentials /\ I!FitsAfter /\ I!NotShutOut
  <1>1. CASE I!ImportData
    BY <1>1, ImportKept
  <1>2. ASSUME ~I!Imports PROVE I!KeepsCredentials /\ I!FitsAfter /\ I!NotShutOut
    BY <1>2 DEF I!KeepsCredentials, I!FitsAfter, I!NotShutOut
  <1>3. CASE \E r \in DOMAIN role : I!DropRole(r)
    <2>1. PICK r \in DOMAIN role : I!DropRole(r)
      BY <1>3
    <2>2. I!Acts
      BY <2>1 DEF I!DropRole
    <2> QED BY <1>2, <2>1, <2>2, ImportDropRole, ImportActs
  <1>4. CASE \E a \in Names : I!DropUser(a)
    <2>1. PICK a \in Names : I!DropUser(a)
      BY <1>4
    <2>2. I!Acts
      BY <2>1 DEF I!DropUser
    <2> QED BY <1>2, <2>1, <2>2, ImportDropUser, ImportActs
  <1>5. CASE I!AddRule \/ I!DropRule
    <2>1. I!Acts /\ UNCHANGED <<acct, role>>
      BY <1>5 DEF I!AddRule, I!DropRule
    <2> QED BY <1>2, <2>1, ImportSame, ImportActs
  <1> QED BY <1>1, <1>3, <1>4, <1>5 DEF I!Next

LEMMA ImportStutter == ASSUME ImportInv, UNCHANGED <<left, acct, role, rules>> PROVE ImportInv' /\ ~I!Imports
  <1>1. left' \in I!Plan /\ left.imports \in Nat
    BY DEF ImportInv, I!Plan
  <1> QED BY <1>1, ImportSame DEF I!Imports

-----------------------------------------------------------------------------
\* Whatever the limits, credentials, files and requests: an account's credentials stay within their limits, recovery codes need a
\* passkey, guesses are bounded, locks end and a session rests on credentials that are valid (directory-do.js, lib/auth.js);
\* and an import keeps every credential, gives none that is another's and no more passkeys than fit, leaves no account with a
\* role that is not there and does not shut its owner out (importData).
THEOREM DirectorySignInSafe == Spec => SignInSafe
  <1> DEFINE Good == (part = "signIn" => SignInv) /\ (part = "import" => ImportInv)
             Steps == /\ part = "signIn" => A!RestsOnCredential /\ A!NoSessionAhead
                      /\ part = "import" => I!KeepsCredentials /\ I!FitsAfter /\ I!NotShutOut
  <1>1. Init => Good
    BY SignInit, ImportInit DEF Init, InitShare, InitSignIn, InitSession, InitLimits, InitImport, InitPage
  <1>2. ASSUME Good, [Next]_vars PROVE Good' /\ [Steps]_vars
    <2>1. CASE InSignIn(A!Next)
      BY <1>2, <2>1, SignStep, SignInvKept DEF InSignIn
    <2>2. CASE InImport(I!Next)
      BY <1>2, <2>2, ImportStep DEF InImport
    <2>3. CASE InShare(S!Next) \/ InSession(C!Next) \/ InLimits(L!Next) \/ InPage(P!Next)
      BY <2>3 DEF InShare, InSession, InLimits, InPage
    <2>4. CASE UNCHANGED vars
      <3>1. UNCHANGED <<part, plan, now, u, passkeys, codes, apiKeys, fails, stepFails, chals, spent, made, req, guesses, opened>>
        BY <2>4 DEF vars
      <3>2. UNCHANGED <<left, acct, role, rules>>
        BY <2>4 DEF vars
      <3>3. part = "signIn" => SignInv'
        BY <1>2, <3>1, SignStutter
      <3>4. part = "import" => ImportInv'
        BY <1>2, <3>2, ImportStutter
      <3> QED BY <2>4, <3>1, <3>3, <3>4
    <2> QED BY <1>2, <2>1, <2>2, <2>3, <2>4 DEF Next
  <1>3. Good => (part = "signIn" => A!TypeOK /\ A!CodesNeedPasskey /\ A!WithinLimits /\ A!GuessesBounded /\ A!LocksEnd)
    BY SignHolds
  <1>4. Good => (part = "import" => I!OneHolder /\ I!RolesThere)
    BY DEF ImportInv
  <1>5. Good /\ [Next]_vars => [Steps]_vars
    BY <1>2
  <1> QED BY <1>1, <1>2, <1>3, <1>4, <1>5, PTL DEF Spec, SignInSafe
=============================================================================
