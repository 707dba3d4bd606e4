-------------------------- MODULE FileShareProofs --------------------------
(***************************************************************************)
(* What a file share keeps, for every rule, limit and number of chunks,    *)
(* uploads, clients and failures: FileKept, and the lockout it implements. *)
(*                                                                         *)
(* None of it is inductive by itself.  IInv adds what holds before the     *)
(* share is made and after it is gone, how far the grants and the alarm    *)
(* reach, and whose each chunk in R2 is.                                   *)
(***************************************************************************)
EXTENDS FileShare, FiniteSetTheorems, TLAPS

\* Before the share is made nothing is there, and nothing but R2's objects once it is gone.
Unmade ==
    /\ ~made => rec = NoRec /\ r2 = {} /\ opened = 0 /\ \A q \in Puts : put[q].at = "idle"
    /\ rec = NoRec => grants = {} /\ alarm = NoTime /\ purge = "no"

\* Views spent and left are the limit; an upload has no grants.
ViewsInv ==
    rec # NoRec =>
        /\ rec.left = Unlimited <=> rec.views = Unlimited
        /\ rec.left # Unlimited => opened + rec.left = rec.views
        /\ rec.left = 0 <=> rec.state = "closed"
        /\ rec.state = "pending" => grants = {} /\ ~rec.refs

\* An alarm that was not spent on a purge comes in time.
AlarmInv ==
    rec # NoRec =>
        /\ alarm = NoTime => purge # "no"
        /\ alarm # NoTime => alarm <= Most(Due, now)

\* No grant outlasts the share or its extensions; a closed share is kept as long as its grants.
GrantInv ==
    /\ IsFiniteSet(grants)
    /\ rec # NoRec =>
        \A g \in grants :
            /\ g.exp <= rec.expires /\ g.exp <= g.f + g.n * GrantSec
            /\ rec.state = "closed" => g.exp <= rec.purgeAt

\* Every chunk in R2 is the share's until the purge has deleted them, an upload's that will
\* have to delete it, or one nobody came back for.
Accounted(i) ==
    \/ i \in lost
    \/ rec # NoRec /\ ~rec.refs /\ purge # "record"
    \/ \E q \in Puts : put[q].at \in {"written", "undo"} /\ put[q].i = i

R2Inv == \A i \in r2 : Accounted(i)

\* A Drive share takes no uploads; those in flight carry chunks of their own, none of them
\* stored (when no chunk is sent again).
Apart ==
    /\ rec # NoRec /\ rec.refs => \A q \in Puts : put[q].at = "idle"
    /\ ~Retries /\ rec # NoRec =>
        \A q \in Puts : put[q].at # "idle" =>
            /\ put[q].i \notin rec.stored
            /\ \A p \in Puts : p # q /\ put[p].at # "idle" => put[p].i # put[q].i

\* Until something fails or a purge begins, what is written stays.
Whole ==
    ~Retries /\ rec # NoRec /\ purge = "no" /\ faults = 0 =>
        /\ rec.stored \subseteq r2
        /\ \A q \in Puts : put[q].at # "undo" /\ (put[q].at = "written" => put[q].i \in r2)
        /\ rec.state # "pending" /\ ~rec.refs => rec.stored = Chunks

IInv ==
    /\ TypeOK /\ Unmade /\ ViewsInv /\ AlarmInv /\ GrantInv /\ GrantsBounded
    /\ R2Inv /\ Apart /\ Whole

-----------------------------------------------------------------------------
\* A wrong password makes a well-formed state of one.
LEMMA PwFailedType ==
    ASSUME NEW st \in PwState, NEW t \in Nat
    PROVE  PwFailed(st, t) \in PwState
<1>1. FailsAt(st, t) \in Nat /\ st.strikes + 1 \in Nat \ {0}
  BY DEF FailsAt, PwState
<1>2. \A s \in Nat \ {0} : LockFactor(s) \in Nat
  <2>1. \A s \in Nat \ {0} : Least(Most(0, s - 1), 6) + 1 \in 1 .. 7
    BY DEF Least, Most
  <2> QED
    BY <2>1 DEF LockFactor
<1>3. \A s \in Nat \ {0} : LockSeconds(s) \in Nat
  <2>1. \A f \in Nat : PwLockSec * f \in Nat
    BY PwRuleAssumption
  <2> QED
    BY <1>2, <2>1, PwRuleAssumption DEF LockSeconds, Least, Most
<1> QED
  BY <1>1, <1>3 DEF PwFailed, PwState, Time, NoTime

LEMMA NoFailsType == NoFails \in PwState
  BY DEF NoFails, PwState, Time, NoTime

LEMMA IdleType == Idle \in [at : {"idle", "authorized", "written", "undo"}, i : Chunks] /\ Idle.at = "idle"
  BY SizesAssumption DEF Idle

LEMMA IInvInit == Init => IInv
<1> SUFFICES ASSUME Init PROVE IInv
  OBVIOUS
<1>1. TypeOK
  <2>1. put \in [Puts -> [at : {"idle", "authorized", "written", "undo"}, i : Chunks]]
    BY IdleType DEF Init
  <2>2. now \in 0 .. MaxTime /\ born \in 0 .. now /\ faults \in 0 .. MaxFaults
    BY SizesAssumption DEF Init
  <2> QED
    BY <2>1, <2>2, NoFailsType DEF Init, TypeOK
<1>2. GrantsBounded /\ GrantInv
  <2>1. LiveGrants = {} /\ \A c \in Clients : Mine(c) = {}
    BY DEF Init, LiveGrants, Mine
  <2> QED
    BY <2>1, FS_EmptySet, SizesAssumption DEF Init, GrantsBounded, GrantInv
<1>3. Unmade /\ R2Inv
  BY IdleType DEF Init, Unmade, R2Inv
<1> QED
  BY <1>1, <1>2, <1>3 DEF Init, IInv, ViewsInv, AlarmInv, Apart, Whole

\* Grants only run out as time passes.
LEMMA FewerGrants ==
    ASSUME NEW S, NEW T, IsFiniteSet(S), T \subseteq S
    PROVE  IsFiniteSet(T) /\ Cardinality(T) \in Nat /\ Cardinality(S) \in Nat /\ Cardinality(T) <= Cardinality(S)
  BY FS_Subset, FS_CardinalityType

LEMMA LiveFinite ==
    ASSUME GrantInv
    PROVE  /\ IsFiniteSet(LiveGrants) /\ Cardinality(LiveGrants) \in Nat
           /\ \A c : IsFiniteSet(Mine(c)) /\ Cardinality(Mine(c)) \in Nat
<1>1. LiveGrants \subseteq grants /\ \A c : Mine(c) \subseteq grants
  BY DEF LiveGrants, Mine
<1> QED
  BY <1>1, FewerGrants DEF GrantInv

LEMMA BoundedIfFewer ==
    ASSUME GrantInv, GrantsBounded, IsFiniteSet(grants'),
           LiveGrants' \subseteq LiveGrants
    PROVE  GrantsBounded'
<1>1. \A c : Mine(c)' \subseteq Mine(c)
  BY DEF Mine
<1>2. \A c \in Clients : Cardinality(Mine(c)') <= Cardinality(Mine(c)) /\ Cardinality(Mine(c)') \in Nat
  BY <1>1, LiveFinite, FewerGrants
<1>3. Cardinality(LiveGrants') <= Cardinality(LiveGrants) /\ Cardinality(LiveGrants') \in Nat
  BY LiveFinite, FewerGrants
<1> QED
  BY <1>2, <1>3, LiveFinite, SizesAssumption DEF GrantsBounded

\* What becomes of the chunks when only the record changes, or a purge begins.
LEMMA ChunksKept ==
    ASSUME IInv, UNCHANGED <<r2, put, lost, faults>>,
           rec = NoRec <=> rec' = NoRec,
           rec # NoRec => /\ rec'.refs = rec.refs /\ rec'.stored = rec.stored
                          /\ rec'.state # "pending" => rec.state # "pending" \/ rec.stored = Chunks,
           purge' = purge \/ (purge = "no" /\ purge' = "chunks")
    PROVE  R2Inv' /\ Apart' /\ Whole'
<1>1. R2Inv'
  BY DEF IInv, R2Inv, Accounted
<1>2. Apart'
  BY DEF IInv, Apart
<1>3. Whole'
  BY DEF IInv, Whole
<1> QED
  BY <1>1, <1>2, <1>3

\* A count of wrong passwords, the begin of a purge, or nothing.
LEMMA IInvFramed ==
    ASSUME IInv, UNCHANGED <<now, rec, grants, alarm, made, r2, put, opened, lost, faults>>,
           purge' = purge \/ (purge = "no" /\ purge' = "chunks" /\ rec # NoRec),
           pw' \in PwState, guesses' \in Nat, born' \in 0 .. now
    PROVE  IInv'
<1>1. TypeOK'
  BY DEF IInv, TypeOK
<1>2. Unmade' /\ ViewsInv' /\ AlarmInv'
  BY DEF IInv, Unmade, ViewsInv, AlarmInv, Due
<1>3. GrantInv' /\ GrantsBounded'
  <2>1. LiveGrants' = LiveGrants
    BY DEF LiveGrants
  <2> QED
    BY <2>1, BoundedIfFewer DEF IInv, GrantInv
<1>4. R2Inv' /\ Apart' /\ Whole'
  BY ChunksKept
<1> QED
  BY <1>1, <1>2, <1>3, <1>4 DEF IInv

LEMMA IInvLapse ==
    ASSUME IInv, Serving, Lapse, UNCHANGED <<now, made, r2, put, opened, lost, faults>>
    PROVE  IInv'
<1>1. pw \in PwState /\ guesses \in Nat /\ born \in 0 .. now
  BY DEF IInv, TypeOK
<1>2. rec' = rec /\ grants' = grants /\ alarm' = alarm /\ pw' = pw /\ guesses' = guesses /\ born' = born
  BY DEF Lapse, StartPurge, recVars
<1>3. purge' = purge \/ (purge = "no" /\ purge' = "chunks" /\ rec # NoRec)
  BY DEF Lapse, StartPurge, Dead, Serving
<1> QED
  BY <1>1, <1>2, <1>3, IInvFramed

LEMMA IInvStartPurge ==
    ASSUME IInv, Serving, StartPurge, rec # NoRec, UNCHANGED <<now, made, r2, put, opened, lost, faults>>
    PROVE  IInv'
<1>1. pw \in PwState /\ guesses \in Nat /\ born \in 0 .. now
  BY DEF IInv, TypeOK
<1> QED
  BY <1>1, IInvFramed DEF StartPurge, Serving, recVars

-----------------------------------------------------------------------------
\* The begin of a share: nothing was there.
LEMMA FirstRecord ==
    ASSUME IInv, NEW r \in Rec, rec' = r, r.stored = {}, r.views \in Limit, r.left = r.views,
           r.state \in {"pending", "active"}, r.state = "pending" <=> ~r.refs,
           rec = NoRec, ~made, made' = TRUE, alarm' \in Nat, alarm' = Due',
           UNCHANGED <<now, grants, pw, purge, r2, put, opened, guesses, born, lost, faults>>
    PROVE  IInv'
<1>1. /\ rec' \in Rec /\ rec' # NoRec /\ grants' = {} /\ purge' = "no" /\ r2' = {} /\ opened' = 0
      /\ \A q \in Puts : put'[q].at = "idle"
  BY NoRecAssumption DEF IInv, Unmade
<1>2. TypeOK'
  BY <1>1 DEF IInv, TypeOK, Time
<1>3. Unmade' /\ R2Inv' /\ Apart' /\ Whole'
  BY <1>1 DEF Unmade, R2Inv, Apart, Whole
<1>4. ViewsInv'
  <2>1. \A v \in Limit : v # 0 /\ 0 + v = v
    BY SizesAssumption DEF Limit, Unlimited
  <2> QED
    BY <1>1, <2>1 DEF ViewsInv
<1>5. AlarmInv'
  <2>1. now' \in Nat
    BY SizesAssumption DEF IInv, TypeOK
  <2> QED
    BY <1>1, <2>1 DEF AlarmInv, Most, NoTime
<1>6. GrantInv' /\ GrantsBounded'
  <2>1. IsFiniteSet(grants') /\ LiveGrants' \subseteq LiveGrants
    BY <1>1, FS_EmptySet DEF LiveGrants
  <2> QED
    BY <1>1, <2>1, BoundedIfFewer DEF IInv, GrantInv
<1> QED
  BY <1>2, <1>3, <1>4, <1>5, <1>6 DEF IInv

LEMMA IInvInitUpload ==
    ASSUME IInv, NEW views \in Limit, NEW kind \in Kinds, InitUpload(views, kind)
    PROVE  IInv'
<1>1. now \in Nat /\ now + PendingSec \in Nat
  BY SizesAssumption DEF IInv, TypeOK
<1>2. rec' \in Rec
  BY <1>1, KindsAssumption DEF InitUpload, Rec, Time
<1>3. /\ rec'.stored = {} /\ rec'.views = views /\ rec'.left = views /\ rec'.state = "pending" /\ ~rec'.refs
      /\ alarm' = rec'.deadline /\ alarm' = now + PendingSec
  BY DEF InitUpload
<1> QED
  BY <1>1, <1>2, <1>3, FirstRecord DEF InitUpload, Due

LEMMA IInvInitRefs ==
    ASSUME IInv, NEW views \in Limit, NEW kind \in Kinds, InitRefs(views, kind)
    PROVE  IInv'
<1>1. now \in Nat /\ now + Ttl \in Nat
  BY SizesAssumption DEF IInv, TypeOK
<1>2. rec' \in Rec
  BY <1>1, KindsAssumption DEF InitRefs, Rec, Time
<1>3. /\ rec'.stored = {} /\ rec'.views = views /\ rec'.left = views /\ rec'.state = "active" /\ rec'.refs
      /\ alarm' = rec'.expires /\ alarm' = now + Ttl
  BY DEF InitRefs
<1> QED
  BY <1>1, <1>2, <1>3, FirstRecord DEF InitRefs, Due

-----------------------------------------------------------------------------
\* What the record and the grants keep while chunks come and go: all but their own part of IInv.
LEMMA RecordKept ==
    ASSUME IInv, UNCHANGED <<now, rec, grants, alarm, pw, guesses, born, made, opened>>,
           purge' = purge \/ (rec # NoRec /\ purge' \in {"chunks", "record"}),
           r2' \subseteq Chunks, lost' \subseteq Chunks, faults' \in 0 .. MaxFaults,
           put' \in [Puts -> [at : {"idle", "authorized", "written", "undo"}, i : Chunks]],
           rec # NoRec \/ r2' = {} \/ made
    PROVE  TypeOK' /\ ViewsInv' /\ AlarmInv' /\ GrantInv' /\ GrantsBounded'
<1>1. TypeOK'
  BY DEF IInv, TypeOK
<1>2. ViewsInv' /\ AlarmInv'
  BY DEF IInv, ViewsInv, AlarmInv, Due
<1>3. GrantInv' /\ GrantsBounded'
  <2>1. LiveGrants' = LiveGrants
    BY DEF LiveGrants
  <2> QED
    BY <2>1, BoundedIfFewer DEF IInv, GrantInv
<1> QED
  BY <1>1, <1>2, <1>3

PutType == [Puts -> [at : {"idle", "authorized", "written", "undo"}, i : Chunks]]

\* A request moves on, or is over.
LEMMA PutMoves ==
    ASSUME put \in PutType, NEW q \in Puts,
           NEW a \in {"idle", "authorized", "written", "undo"}
    PROVE  /\ [put EXCEPT ![q] = Idle] \in PutType
           /\ [put EXCEPT ![q].at = a] \in PutType
           /\ \A i \in Chunks : [put EXCEPT ![q] = [at |-> a, i |-> i]] \in PutType
  BY IdleType DEF PutType

LEMMA IInvAuthorizeChunk ==
    ASSUME IInv, NEW q \in Puts, NEW i \in Chunks, AuthorizeChunk(q, i)
    PROVE  IInv'
<1>1. CASE Lapse /\ UNCHANGED put
  BY <1>1, IInvLapse DEF AuthorizeChunk
<1>2. CASE LiveIn({"pending"}) /\ put' = [put EXCEPT ![q] = [at |-> "authorized", i |-> i]] /\ UNCHANGED <<recVars, purge>>
  <2>1. put \in PutType /\ put' \in PutType /\ rec # NoRec
    BY <1>2, PutMoves DEF IInv, TypeOK, PutType, LiveIn
  <2>2. /\ put'[q] = [at |-> "authorized", i |-> i]
        /\ \A p \in Puts : p # q => put'[p] = put[p]
    BY <1>2, <2>1 DEF PutType
  <2>3. TypeOK' /\ ViewsInv' /\ AlarmInv' /\ GrantInv' /\ GrantsBounded'
    BY <1>2, <2>1, RecordKept DEF AuthorizeChunk, recVars, IInv, TypeOK, PutType
  <2>4. Unmade'
    BY <1>2, <2>1 DEF AuthorizeChunk, recVars, IInv, Unmade
  <2>5. R2Inv'
    <3> SUFFICES ASSUME NEW j \in r2 PROVE Accounted(j)'
      BY DEF R2Inv, AuthorizeChunk
    <3>1. Accounted(j)
      BY DEF IInv, R2Inv
    <3>2. ASSUME NEW p \in Puts, put[p].at \in {"written", "undo"} PROVE put'[p] = put[p]
      BY <2>2, <3>2 DEF AuthorizeChunk
    <3> QED
      BY <1>2, <3>1, <3>2 DEF AuthorizeChunk, Accounted, recVars
  <2>6. Apart'
    BY <1>2, <2>2 DEF AuthorizeChunk, MaySend, recVars, LiveIn, IInv, ViewsInv, Apart
  <2>7. Whole'
    BY <1>2, <2>2 DEF AuthorizeChunk, recVars, IInv, Whole
  <2> QED
    BY <2>3, <2>4, <2>5, <2>6, <2>7 DEF IInv
<1> QED
  BY <1>1, <1>2 DEF AuthorizeChunk

LEMMA IInvWriteChunk ==
    ASSUME IInv, NEW q \in Puts, WriteChunk(q)
    PROVE  IInv'
<1>1. put \in PutType /\ put' \in PutType /\ put[q].i \in Chunks /\ made
  <2>1. put \in PutType
    BY DEF IInv, TypeOK, PutType
  <2>2. put[q] \in [at : {"idle", "authorized", "written", "undo"}, i : Chunks] /\ made
    BY <2>1 DEF PutType, WriteChunk, IInv, Unmade, TypeOK
  <2> QED
    BY <2>1, <2>2, PutMoves DEF WriteChunk
<1>2. /\ put'[q].at = "written" /\ put'[q].i = put[q].i
      /\ \A p \in Puts : p # q => put'[p] = put[p]
  BY <1>1 DEF PutType, WriteChunk
<1>3. TypeOK' /\ ViewsInv' /\ AlarmInv' /\ GrantInv' /\ GrantsBounded'
  BY <1>1, RecordKept DEF WriteChunk, recVars, IInv, TypeOK, PutType
<1>4. Unmade'
  BY <1>1 DEF WriteChunk, recVars, IInv, Unmade
<1>5. R2Inv'
  <2> SUFFICES ASSUME NEW j \in r2' PROVE Accounted(j)'
    BY DEF R2Inv
  <2>1. CASE j = put[q].i
    BY <1>2, <2>1 DEF Accounted
  <2>2. CASE j # put[q].i
    <3>1. Accounted(j)
      BY <2>2 DEF IInv, R2Inv, WriteChunk
    <3> QED
      BY <1>2, <2>2, <3>1 DEF WriteChunk, Accounted, recVars
  <2> QED
    BY <2>1, <2>2
<1>6. Apart'
  BY <1>2 DEF WriteChunk, recVars, IInv, Apart
<1>7. Whole'
  BY <1>2 DEF WriteChunk, recVars, IInv, Whole
<1> QED
  BY <1>3, <1>4, <1>5, <1>6, <1>7 DEF IInv

LEMMA IInvUndoChunk ==
    ASSUME IInv, NEW q \in Puts, UndoChunk(q)
    PROVE  IInv'
<1>1. put \in PutType /\ put' \in PutType /\ put[q].at = "undo" /\ made /\ r2' \subseteq r2
  BY PutMoves DEF UndoChunk, IInv, Unmade, TypeOK, PutType
<1>2. /\ put'[q].at = "idle"
      /\ \A p \in Puts : p # q => put'[p] = put[p]
  BY <1>1, IdleType DEF PutType, UndoChunk
<1>3. TypeOK' /\ ViewsInv' /\ AlarmInv' /\ GrantInv' /\ GrantsBounded'
  BY <1>1, RecordKept DEF UndoChunk, recVars, IInv, TypeOK, PutType
<1>4. Unmade'
  BY <1>1 DEF UndoChunk, recVars, IInv, Unmade
<1>5. R2Inv'
  <2> SUFFICES ASSUME NEW j \in r2' PROVE Accounted(j)'
    BY DEF R2Inv
  <2>1. Accounted(j) /\ j # put[q].i
    BY DEF IInv, R2Inv, UndoChunk
  <2> QED
    BY <1>2, <2>1 DEF UndoChunk, Accounted, recVars
<1>6. Apart'
  BY <1>2 DEF UndoChunk, recVars, IInv, Apart
<1>7. Whole'
  BY <1>1 DEF UndoChunk, recVars, IInv, Whole
<1> QED
  BY <1>3, <1>4, <1>5, <1>6, <1>7 DEF IInv

LEMMA IInvAbandonPut ==
    ASSUME IInv, NEW q \in Puts, AbandonPut(q)
    PROVE  IInv'
<1>1. put \in PutType /\ put' \in PutType /\ made /\ put[q].i \in Chunks
  <2>1. put \in PutType
    BY DEF IInv, TypeOK, PutType
  <2>2. put[q] \in [at : {"idle", "authorized", "written", "undo"}, i : Chunks] /\ made
    BY <2>1 DEF PutType, AbandonPut, IInv, Unmade, TypeOK
  <2> QED
    BY <2>1, <2>2, PutMoves DEF AbandonPut
<1>2. /\ put'[q].at = "idle"
      /\ \A p \in Puts : p # q => put'[p] = put[p]
  BY <1>1, IdleType DEF PutType, AbandonPut
<1>3. faults \in Nat /\ faults' = faults + 1 /\ faults' \in 0 .. MaxFaults
  BY SizesAssumption DEF AbandonPut, IInv, TypeOK
<1>4. TypeOK' /\ ViewsInv' /\ AlarmInv' /\ GrantInv' /\ GrantsBounded'
  BY <1>1, <1>3, RecordKept DEF AbandonPut, recVars, IInv, TypeOK, PutType
<1>5. Unmade'
  BY <1>1 DEF AbandonPut, recVars, IInv, Unmade
<1>6. R2Inv'
  <2> SUFFICES ASSUME NEW j \in r2 PROVE Accounted(j)'
    BY DEF R2Inv, AbandonPut
  <2>1. Accounted(j)
    BY DEF IInv, R2Inv
  <2>2. lost \subseteq lost' /\ (put[q].at \in {"written", "undo"} => put[q].i \in lost')
    BY DEF AbandonPut
  <2> QED
    BY <1>2, <2>1, <2>2 DEF AbandonPut, Accounted, recVars
<1>7. Apart'
  BY <1>2 DEF AbandonPut, recVars, IInv, Apart
<1>8. Whole'
  BY <1>3 DEF Whole
<1> QED
  BY <1>4, <1>5, <1>6, <1>7, <1>8 DEF IInv

\* A commit that is refused leaves a chunk to undo.  Unless something failed the record is
\* gone by then, or is about to be: before that an upload is finalized with every chunk stored,
\* and none in flight.
LEMMA IInvCommitRefused ==
    ASSUME IInv, NEW q \in Puts, CommitChunk(q), ~LiveIn({"pending"})
    PROVE  IInv'
<1>1. put \in PutType /\ put' \in PutType /\ put' = [put EXCEPT ![q].at = "undo"] /\ put[q].at = "written" /\ made
  <2>1. put \in PutType /\ made /\ put[q].at = "written" /\ put' = [put EXCEPT ![q].at = "undo"]
    BY DEF CommitChunk, IInv, Unmade, TypeOK, PutType
  <2> QED
    BY <2>1, PutMoves
<1>2. /\ put'[q].at = "undo" /\ put'[q].i = put[q].i
      /\ \A p \in Puts : p # q => put'[p] = put[p]
  BY <1>1 DEF PutType
<1>3. UNCHANGED recVars /\ (purge' = purge \/ (rec # NoRec /\ purge' = "chunks"))
  BY DEF CommitChunk, Lapse, StartPurge, Dead
<1>4. TypeOK' /\ ViewsInv' /\ AlarmInv' /\ GrantInv' /\ GrantsBounded'
  BY <1>1, <1>3, RecordKept DEF CommitChunk, recVars, IInv, TypeOK, PutType
<1>5. Unmade'
  BY <1>1, <1>3 DEF CommitChunk, recVars, IInv, Unmade
<1>6. R2Inv'
  <2> SUFFICES ASSUME NEW j \in r2 PROVE Accounted(j)'
    BY DEF R2Inv, CommitChunk
  <2>1. Accounted(j)
    BY DEF IInv, R2Inv
  <2>2. (rec # NoRec /\ ~rec.refs /\ purge # "record") => (rec' # NoRec /\ ~rec'.refs /\ purge' # "record")
    BY <1>3 DEF recVars
  <2> QED
    BY <1>2, <2>1, <2>2 DEF CommitChunk, Accounted
<1>7. Apart'
  BY <1>1, <1>2, <1>3 DEF recVars, IInv, Apart
<1>8. Whole'
  <2> SUFFICES ASSUME ~Retries, rec # NoRec, purge = "no", purge' = "no", faults = 0 PROVE FALSE
    BY <1>3 DEF Whole, CommitChunk, recVars, Serving
  <2>1. ~Dead
    BY DEF CommitChunk, Lapse, StartPurge
  <2>2. rec.state # "pending" /\ rec \in Rec
    BY <2>1 DEF LiveIn, IInv, TypeOK
  <2>3. CASE rec.refs
    BY <1>1, <2>3 DEF IInv, Apart
  <2>4. CASE ~rec.refs
    <3>1. rec.stored = Chunks /\ put[q].i \in Chunks
      BY <1>1, <2>2, <2>4 DEF IInv, Whole, PutType
    <3> QED
      BY <1>1, <3>1 DEF IInv, Apart
  <2> QED
    BY <2>3, <2>4
<1> QED
  BY <1>4, <1>5, <1>6, <1>7, <1>8 DEF IInv

LEMMA IInvCommitChunk ==
    ASSUME IInv, NEW q \in Puts, CommitChunk(q)
    PROVE  IInv'
<1>1. CASE ~LiveIn({"pending"})
  BY <1>1, IInvCommitRefused
<1>2. CASE LiveIn({"pending"})
  <2>1. put \in PutType /\ put' \in PutType /\ put' = [put EXCEPT ![q] = Idle] /\ put[q].at = "written" /\ made
    <3>1. put \in PutType /\ made /\ put[q].at = "written" /\ put' = [put EXCEPT ![q] = Idle]
      BY <1>2 DEF CommitChunk, IInv, Unmade, TypeOK, PutType
    <3> QED
      BY <3>1, PutMoves
  <2>2. /\ put'[q].at = "idle" /\ put[q].i \in Chunks
        /\ \A p \in Puts : p # q => put'[p] = put[p]
    BY <2>1, IdleType DEF PutType
  <2>3. /\ rec \in Rec /\ rec.state = "pending" /\ grants = {} /\ ~rec.refs /\ purge = "no"
        /\ rec' = [rec EXCEPT !.stored = rec.stored \cup {put[q].i}]
    BY <1>2 DEF CommitChunk, LiveIn, IInv, TypeOK, ViewsInv, Serving
  <2>4. /\ rec' \in Rec /\ rec # NoRec /\ rec' # NoRec /\ rec'.stored = rec.stored \cup {put[q].i}
        /\ rec'.state = rec.state /\ rec'.refs = rec.refs /\ rec'.left = rec.left /\ rec'.views = rec.views
        /\ rec'.deadline = rec.deadline
    BY <2>2, <2>3, NoRecAssumption DEF Rec
  <2>5. /\ UNCHANGED <<now, made, r2, opened, lost, faults, grants, alarm, pw, guesses, born, purge>>
    BY <1>2 DEF CommitChunk
  <2>6. TypeOK'
    BY <2>1, <2>4, <2>5 DEF IInv, TypeOK, PutType
  <2>7. Unmade' /\ ViewsInv' /\ AlarmInv'
    BY <2>1, <2>3, <2>4, <2>5 DEF IInv, Unmade, ViewsInv, AlarmInv, Due
  <2>8. GrantInv' /\ GrantsBounded'
    <3>1. LiveGrants' = LiveGrants /\ grants' = {}
      BY <2>3, <2>5 DEF LiveGrants
    <3> QED
      BY <3>1, FS_EmptySet, BoundedIfFewer DEF IInv, GrantInv
  <2>9. R2Inv'
    BY <2>3, <2>4, <2>5 DEF R2Inv, Accounted
  <2>10. Apart'
    BY <2>1, <2>2, <2>3, <2>4 DEF IInv, Apart
  <2>11. Whole'
    BY <2>1, <2>2, <2>3, <2>4, <2>5 DEF IInv, Whole
  <2> QED
    BY <2>6, <2>7, <2>8, <2>9, <2>10, <2>11 DEF IInv
<1> QED
  BY <1>1, <1>2

LEMMA IInvFinalize ==
    ASSUME IInv, Finalize
    PROVE  IInv'
<1>1. CASE ~(LiveIn({"pending"}) /\ AllStored)
  BY <1>1, IInvLapse DEF Finalize
<1>2. CASE LiveIn({"pending"}) /\ AllStored
  <2>1. now \in Nat /\ now + Ttl \in Nat
    BY SizesAssumption DEF IInv, TypeOK
  <2>2. /\ rec \in Rec /\ rec.state = "pending" /\ grants = {} /\ ~rec.refs /\ rec.stored = Chunks
        /\ rec' = [rec EXCEPT !.state = "active", !.deadline = 0, !.expires = now + Ttl]
        /\ alarm' = now + Ttl
        /\ UNCHANGED <<grants, pw, guesses, born, purge, now, made, r2, put, opened, lost, faults>>
    BY <1>2 DEF Finalize, LiveIn, AllStored, IInv, TypeOK, ViewsInv
  <2>3. /\ rec' \in Rec /\ rec # NoRec /\ rec' # NoRec /\ rec'.stored = rec.stored
        /\ rec'.state = "active" /\ rec'.refs = rec.refs /\ rec'.left = rec.left /\ rec'.views = rec.views
        /\ rec'.expires = now + Ttl
    <3>1. rec' \in Rec
      BY <2>1, <2>2 DEF Rec, Time
    <3>2. rec # NoRec /\ rec' # NoRec
      BY <2>2, <3>1, NoRecAssumption
    <3>3. rec \in Rec /\ rec' = [rec EXCEPT !.state = "active", !.deadline = 0, !.expires = now + Ttl]
      BY <2>2
    <3>4. /\ rec'.stored = rec.stored /\ rec'.state = "active" /\ rec'.refs = rec.refs /\ rec'.left = rec.left
          /\ rec'.views = rec.views /\ rec'.expires = now + Ttl
      BY <3>3 DEF Rec
    <3> QED
      BY <3>1, <3>2, <3>4
  <2>4. TypeOK'
    BY <2>1, <2>2, <2>3 DEF IInv, TypeOK, Time
  <2>5. Unmade' /\ ViewsInv'
    BY <2>2, <2>3 DEF IInv, Unmade, ViewsInv
  <2>6. AlarmInv'
    BY <2>1, <2>2, <2>3 DEF AlarmInv, Due, NoTime, Most
  <2>7. GrantInv' /\ GrantsBounded'
    <3>1. LiveGrants' = LiveGrants /\ grants' = {}
      BY <2>2 DEF LiveGrants
    <3> QED
      BY <3>1, FS_EmptySet, BoundedIfFewer DEF IInv, GrantInv
  <2>8. R2Inv' /\ Apart' /\ Whole'
    BY <2>2, <2>3, ChunksKept
  <2> QED
    BY <2>4, <2>5, <2>6, <2>7, <2>8 DEF IInv
<1> QED
  BY <1>1, <1>2

LEMMA IInvPurgeChunks ==
    ASSUME IInv, PurgeChunks
    PROVE  IInv'
<1>1. rec # NoRec /\ made /\ r2' \subseteq r2 /\ put \in PutType
  BY DEF PurgeChunks, IInv, Unmade, TypeOK, PutType
<1>2. TypeOK' /\ ViewsInv' /\ AlarmInv' /\ GrantInv' /\ GrantsBounded'
  BY <1>1, RecordKept DEF PurgeChunks, recVars, IInv, TypeOK, PutType
<1>3. Unmade' /\ Apart' /\ Whole'
  BY <1>1 DEF PurgeChunks, recVars, IInv, Unmade, Apart, Whole
<1>4. R2Inv'
  BY DEF PurgeChunks, recVars, IInv, R2Inv, Accounted
<1> QED
  BY <1>2, <1>3, <1>4 DEF IInv

LEMMA IInvPurgeFails ==
    ASSUME IInv, PurgeFails
    PROVE  IInv'
<1>1. rec # NoRec /\ made /\ r2' \subseteq r2 /\ now \in Nat
  BY SizesAssumption DEF PurgeFails, IInv, Unmade, TypeOK
<1>2. /\ faults \in Nat /\ faults' = faults + 1 /\ faults' \in 0 .. MaxFaults
      /\ alarm' \in Nat /\ (alarm' = now \/ (alarm # NoTime /\ alarm' = alarm))
  <2>1. faults \in Nat /\ faults' = faults + 1 /\ faults' \in 0 .. MaxFaults
    BY SizesAssumption DEF PurgeFails, IInv, TypeOK
  <2>2. alarm \in Nat \cup {NoTime} /\ alarm' = (IF alarm = NoTime THEN now ELSE alarm)
    BY DEF PurgeFails, RetriedAlarm, IInv, TypeOK, Time
  <2>3. alarm' \in Nat /\ (alarm' = now \/ (alarm # NoTime /\ alarm' = alarm))
    <3>1. CASE alarm = NoTime
      BY <1>1, <2>2, <3>1
    <3>2. CASE alarm # NoTime
      BY <2>2, <3>2
    <3> QED
      BY <3>1, <3>2
  <2> QED
    BY <2>1, <2>3
<1>3. TypeOK'
  BY <1>1, <1>2 DEF PurgeFails, IInv, TypeOK, Time
<1>4. Unmade' /\ ViewsInv' /\ Apart'
  BY <1>1 DEF PurgeFails, IInv, Unmade, ViewsInv, Apart
<1>5. AlarmInv'
  <2>1. Due \in Nat /\ Due' = Due /\ now' = now
    BY <1>1 DEF PurgeFails, IInv, TypeOK, Rec, Time, Due
  <2>2. alarm' <= Most(Due, now)
    BY <1>1, <1>2, <2>1 DEF IInv, AlarmInv, Most
  <2> QED
    BY <1>1, <1>2, <2>1, <2>2 DEF AlarmInv, NoTime
<1>6. GrantInv' /\ GrantsBounded'
  <2>1. LiveGrants' = LiveGrants
    BY DEF LiveGrants, PurgeFails
  <2> QED
    BY <2>1, BoundedIfFewer DEF IInv, GrantInv, PurgeFails
<1>7. R2Inv'
  BY <1>1 DEF PurgeFails, IInv, R2Inv, Accounted
<1>8. Whole'
  BY <1>2 DEF Whole
<1> QED
  BY <1>3, <1>4, <1>5, <1>6, <1>7, <1>8 DEF IInv

LEMMA IInvPurgeRecord ==
    ASSUME IInv, PurgeRecord
    PROVE  IInv'
<1>1. rec' = NoRec /\ grants' = {} /\ made
  BY DEF PurgeRecord, IInv, Unmade, TypeOK
<1>2. TypeOK'
  BY <1>1, NoFailsType, SizesAssumption DEF PurgeRecord, IInv, TypeOK
<1>3. Unmade' /\ ViewsInv' /\ AlarmInv' /\ Apart' /\ Whole'
  BY <1>1 DEF PurgeRecord, Unmade, ViewsInv, AlarmInv, Apart, Whole
<1>4. GrantInv' /\ GrantsBounded'
  <2>1. IsFiniteSet(grants') /\ LiveGrants' \subseteq LiveGrants
    BY <1>1, FS_EmptySet DEF LiveGrants
  <2> QED
    BY <1>1, <2>1, BoundedIfFewer DEF IInv, GrantInv
<1>5. R2Inv'
  BY DEF PurgeRecord, IInv, R2Inv, Accounted
<1> QED
  BY <1>2, <1>3, <1>4, <1>5 DEF IInv

LEMMA IInvTick ==
    ASSUME IInv, Tick
    PROVE  IInv'
<1>1. now \in Nat /\ now' \in 0 .. MaxTime /\ now' > now /\ born \in 0 .. now'
  BY SizesAssumption DEF Tick, IInv, TypeOK
<1>2. TypeOK' /\ Unmade' /\ ViewsInv'
  BY <1>1 DEF Tick, recVars, IInv, TypeOK, Unmade, ViewsInv
<1>3. AlarmInv'
  <2> SUFFICES ASSUME rec # NoRec, alarm # NoTime PROVE alarm <= Most(Due', now')
    BY DEF IInv, AlarmInv, Tick, recVars
  <2>1. Due \in Nat /\ Due' = Due /\ alarm \in Nat
    BY DEF Tick, recVars, IInv, TypeOK, Rec, Time, Due
  <2> QED
    BY <1>1, <2>1 DEF IInv, AlarmInv, Most
<1>4. GrantInv' /\ GrantsBounded'
  <2>1. LiveGrants' \subseteq LiveGrants
    BY <1>1 DEF LiveGrants, Tick, recVars, IInv, TypeOK, Grant, Time
  <2> QED
    BY <2>1, BoundedIfFewer DEF IInv, GrantInv, Tick, recVars
<1>5. R2Inv' /\ Apart' /\ Whole'
  BY ChunksKept DEF Tick, recVars
<1> QED
  BY <1>2, <1>3, <1>4, <1>5 DEF IInv

-----------------------------------------------------------------------------
\* No more than one more grant, or than one in the place of another.
LEMMA OneMore ==
    ASSUME NEW S, IsFiniteSet(S), NEW x, NEW T, T \subseteq S \cup {x}
    PROVE  IsFiniteSet(T) /\ Cardinality(T) \in Nat /\ Cardinality(T) <= Cardinality(S) + 1
<1>1. IsFiniteSet(S \cup {x}) /\ Cardinality(S \cup {x}) = (IF x \in S THEN Cardinality(S) ELSE Cardinality(S) + 1)
  BY FS_AddElement
<1>2. Cardinality(S) \in Nat
  BY FS_CardinalityType
<1>3. IsFiniteSet(T) /\ Cardinality(T) \in Nat /\ Cardinality(T) <= Cardinality(S \cup {x})
  BY <1>1, FewerGrants
<1> QED
  BY <1>1, <1>2, <1>3

LEMMA InPlaceOf ==
    ASSUME NEW S, IsFiniteSet(S), NEW g \in S, NEW x, NEW T, T \subseteq (S \ {g}) \cup {x}
    PROVE  IsFiniteSet(T) /\ Cardinality(T) \in Nat /\ Cardinality(T) <= Cardinality(S)
<1>1. IsFiniteSet(S \ {g}) /\ Cardinality(S \ {g}) = Cardinality(S) - 1 /\ Cardinality(S) \in Nat
  BY FS_RemoveElement, FS_CardinalityType
<1>2. IsFiniteSet(T) /\ Cardinality(T) \in Nat /\ Cardinality(T) <= Cardinality(S \ {g}) + 1
  BY <1>1, OneMore
<1> QED
  BY <1>1, <1>2

\* Whatever gives way to it, a new grant keeps the table within its limits.
LEMMA ReleaseBounded ==
    ASSUME IInv, NEW client \in Clients, ~Busy(client), NEW kept \in Kept(client), NEW g, g.c = client,
           grants' = kept \cup {g}, now' = now
    PROVE  kept \subseteq LiveGrants /\ IsFiniteSet(grants') /\ GrantsBounded'
<1> USE SizesAssumption
<1>1. /\ IsFiniteSet(LiveGrants) /\ Cardinality(LiveGrants) \in Nat
      /\ \A c : IsFiniteSet(Mine(c)) /\ Cardinality(Mine(c)) \in Nat
  BY LiveFinite DEF IInv
<1>2. Cardinality(LiveGrants) <= MaxActiveGrants /\ \A c \in Clients : Cardinality(Mine(c)) <= MaxGrantsPerClient
  BY DEF IInv, GrantsBounded
<1>3. \A c : Mine(c) \subseteq LiveGrants
  BY DEF Mine
<1>4. CASE MayGiveWay(client) = {}
  <2>1. kept = LiveGrants
    BY <1>4 DEF Kept
  <2>2. Cardinality(Mine(client)) < MaxGrantsPerClient
    <3>1. SUFFICES ASSUME Cardinality(Mine(client)) >= MaxGrantsPerClient PROVE FALSE
      BY <1>1
    <3>2. Mine(client) = {}
      BY <1>4, <3>1 DEF MayGiveWay
    <3> QED
      BY <3>1, <3>2, FS_EmptySet
  <2>3. Cardinality(LiveGrants) < MaxActiveGrants
    <3>1. SUFFICES ASSUME Cardinality(LiveGrants) >= MaxActiveGrants PROVE FALSE
      BY <1>1
    <3>2. PastFirstWindow = {}
      BY <1>1, <1>4, <2>2, <3>1 DEF MayGiveWay
    <3> QED
      BY <2>2, <3>1, <3>2 DEF Busy
  <2>4. IsFiniteSet(grants')
    BY <1>1, <2>1, OneMore
  <2>5. Cardinality(LiveGrants') <= MaxActiveGrants
    <3>1. LiveGrants' \subseteq LiveGrants \cup {g}
      BY <2>1 DEF LiveGrants
    <3> QED
      BY <1>1, <2>3, <3>1, OneMore
  <2>6. ASSUME NEW c \in Clients PROVE Cardinality(Mine(c)') <= MaxGrantsPerClient
    <3>1. Mine(c)' \subseteq (IF c = client THEN Mine(c) \cup {g} ELSE Mine(c))
      BY <2>1 DEF Mine, LiveGrants
    <3> QED
      BY <1>1, <1>2, <2>2, <3>1, OneMore, FewerGrants
  <2> QED
    BY <2>1, <2>4, <2>5, <2>6 DEF GrantsBounded
<1>5. CASE MayGiveWay(client) # {}
  <2>1. PICK o \in EndFirst(MayGiveWay(client)) : kept = LiveGrants \ {o}
    BY <1>5 DEF Kept
  <2>2. o \in MayGiveWay(client) /\ o \in LiveGrants
    BY <1>3, <2>1 DEF EndFirst, MayGiveWay, PastFirstWindow
  <2>3. IsFiniteSet(grants')
    BY <1>1, <2>1, <2>2, InPlaceOf
  <2>4. Cardinality(LiveGrants') <= MaxActiveGrants
    <3>1. LiveGrants' \subseteq (LiveGrants \ {o}) \cup {g}
      BY <2>1 DEF LiveGrants
    <3> QED
      BY <1>1, <1>2, <2>2, <3>1, InPlaceOf
  <2>5. ASSUME NEW c \in Clients PROVE Cardinality(Mine(c)') <= MaxGrantsPerClient
    <3>1. CASE c # client
      <4>1. Mine(c)' \subseteq Mine(c)
        BY <2>1, <3>1 DEF Mine, LiveGrants
      <4> QED
        BY <1>1, <1>2, <4>1, FewerGrants
    <3>2. CASE c = client /\ Cardinality(Mine(client)) >= MaxGrantsPerClient
      <4>1. o \in Mine(c)
        BY <2>2, <3>2 DEF MayGiveWay
      <4>2. Mine(c)' \subseteq (Mine(c) \ {o}) \cup {g}
        BY <2>1 DEF Mine, LiveGrants
      <4> QED
        BY <1>1, <1>2, <4>1, <4>2, InPlaceOf
    <3>3. CASE c = client /\ Cardinality(Mine(client)) < MaxGrantsPerClient
      <4>1. Mine(c)' \subseteq Mine(c) \cup {g}
        BY <2>1 DEF Mine, LiveGrants
      <4> QED
        BY <1>1, <3>3, <4>1, OneMore
    <3> QED
      BY <1>1, <3>1, <3>2, <3>3
  <2> QED
    BY <2>1, <2>3, <2>4, <2>5 DEF GrantsBounded
<1> QED
  BY <1>4, <1>5

\* The right password leaves a well-formed count.
LEMMA KeyAcceptedType ==
    ASSUME IInv, KeyAccepted, UNCHANGED now
    PROVE  pw' \in PwState /\ guesses' \in Nat /\ born' \in 0 .. now'
  BY NoFailsType, SizesAssumption DEF KeyAccepted, IInv, TypeOK

\* A view is spent and a grant written.
LEMMA IInvRelease ==
    ASSUME IInv, NEW client \in Clients, LiveIn({"active"}), KeyAccepted, ~Busy(client), Release(client),
           UNCHANGED <<now, made, purge, r2, put, lost, faults>>
    PROVE  IInv'
<1> DEFINE end == Least(now + GrantSec, rec.expires)
<1>1. /\ rec \in Rec /\ rec # NoRec /\ rec.state = "active" /\ now \in Nat /\ opened \in Nat
      /\ grants \subseteq Grant /\ made
  BY SizesAssumption DEF IInv, TypeOK, LiveIn, Unmade
<1>2. /\ end \in Nat /\ end <= rec.expires /\ rec.expires \in Nat /\ 0 * GrantSec = 0
      /\ rec.left \in Limit \cup {0} /\ rec.left # 0 /\ rec.views \in Limit
  BY <1>1, SizesAssumption DEF Rec, Least, Time, IInv, ViewsInv
<1>3. PICK kept \in Kept(client), h \in Hashes :
        LET table == kept \cup {[h |-> h, c |-> client, exp |-> end, f |-> end, n |-> 0]}
            ends == {g.exp : g \in table} \cup {now}
        IN  /\ grants' = table
            /\ opened' = IF rec.left = Unlimited THEN opened ELSE opened + 1
            /\ IF rec.left = 1
               THEN \E purgeAt \in ends :
                      /\ \A t \in ends : t <= purgeAt
                      /\ rec' = [rec EXCEPT !.left = 0, !.state = "closed", !.purgeAt = purgeAt]
                      /\ alarm' = purgeAt
               ELSE /\ rec' = [rec EXCEPT !.left = IF rec.left = Unlimited THEN rec.left ELSE rec.left - 1]
                    /\ UNCHANGED alarm
  BY DEF Release
<1> DEFINE new == [h |-> h, c |-> client, exp |-> end, f |-> end, n |-> 0]
<1>4. grants' = kept \cup {new} /\ new \in Grant /\ new.exp = end /\ new.f = end /\ new.n = 0 /\ new.c = client
  <2>1. grants' = kept \cup {new}
    BY <1>3
  <2>2. new \in Grant
    BY <1>2, SizesAssumption DEF Grant, Time
  <2> QED
    BY <2>1, <2>2
<1>5. kept \subseteq LiveGrants /\ IsFiniteSet(grants') /\ GrantsBounded'
  BY <1>3, <1>4, ReleaseBounded
<1>6. kept \subseteq grants /\ grants' \subseteq Grant
  BY <1>1, <1>4, <1>5 DEF LiveGrants
<1>7. \A g \in grants' : g.exp \in Nat /\ g.exp <= rec.expires /\ g.exp <= g.f + g.n * GrantSec
  <2>1. new.exp <= new.f + new.n * GrantSec
    BY <1>2, <1>4
  <2> QED
    BY <1>1, <1>2, <1>4, <1>6, <2>1 DEF IInv, GrantInv, Grant, Time
\* The record afterwards: closed with its last view, or one view less.
<1>8. /\ rec' \in Rec /\ rec'.refs = rec.refs /\ rec'.stored = rec.stored /\ rec'.expires = rec.expires
      /\ rec'.views = rec.views /\ rec'.state \in {"active", "closed"}
      /\ rec'.state = "closed" <=> rec'.left = 0
      /\ rec'.left = Unlimited <=> rec.left = Unlimited
      /\ rec'.left # Unlimited => opened' = opened + 1 /\ rec'.left = rec.left - 1
      /\ rec'.state = "closed" => alarm' = rec'.purgeAt /\ alarm' \in Nat /\ \A g \in grants' : g.exp <= rec'.purgeAt
      /\ rec'.state = "active" => alarm' = alarm
  <2>1. CASE rec.left = 1
    <3>1. PICK purgeAt \in {g.exp : g \in grants'} \cup {now} :
            /\ \A t \in {g.exp : g \in grants'} \cup {now} : t <= purgeAt
            /\ rec' = [rec EXCEPT !.left = 0, !.state = "closed", !.purgeAt = purgeAt]
            /\ alarm' = purgeAt
      BY <1>3, <1>4, <2>1
    <3>2. purgeAt \in Nat /\ \A g \in grants' : g.exp <= purgeAt
      BY <1>1, <1>7, <3>1
    <3>3. /\ rec' \in Rec /\ rec'.refs = rec.refs /\ rec'.stored = rec.stored /\ rec'.expires = rec.expires
          /\ rec'.views = rec.views /\ rec'.state = "closed" /\ rec'.left = 0 /\ rec'.purgeAt = purgeAt
      BY <1>1, <3>1, <3>2 DEF Rec, Time
    <3>4. opened' = opened + 1 /\ rec'.left = rec.left - 1 /\ rec.left # Unlimited /\ rec'.left # Unlimited
      <4>1. opened' = (IF rec.left = Unlimited THEN opened ELSE opened + 1)
        BY <1>3
      <4> QED
        BY <2>1, <3>3, <4>1 DEF Unlimited
    <3> QED
      BY <3>1, <3>2, <3>3, <3>4
  <2>2. CASE rec.left = Unlimited
    <3>1. rec' = rec /\ alarm' = alarm /\ opened' = opened
      BY <1>1, <1>3, <2>2 DEF Rec, Unlimited
    <3> QED
      BY <1>1, <2>2, <3>1 DEF Unlimited
  <2>3. CASE rec.left # 1 /\ rec.left # Unlimited
    <3>1. rec.left \in 1 .. MaxViews /\ rec.left - 1 \in 1 .. MaxViews
      BY <1>2, <2>3, SizesAssumption DEF Limit
    <3>2. rec' = [rec EXCEPT !.left = rec.left - 1] /\ alarm' = alarm /\ opened' = opened + 1
      BY <1>3, <2>3
    <3>3. /\ rec' \in Rec /\ rec'.refs = rec.refs /\ rec'.stored = rec.stored /\ rec'.expires = rec.expires
          /\ rec'.views = rec.views /\ rec'.state = rec.state /\ rec'.left = rec.left - 1
      BY <1>1, <3>1, <3>2 DEF Rec, Limit
    <3>4. rec'.left # 0 /\ rec'.left # Unlimited
      BY <3>1, <3>3, SizesAssumption DEF Unlimited
    <3> QED
      BY <1>1, <2>3, <3>2, <3>3, <3>4
  <2> QED
    BY <2>1, <2>2, <2>3
<1>9. rec' # NoRec /\ opened' \in Nat
  <2>1. opened' = opened \/ opened' = opened + 1
    BY <1>3
  <2> QED
    BY <1>1, <1>8, <2>1, NoRecAssumption
<1>10. alarm' \in Nat \cup {NoTime}
  BY <1>8 DEF IInv, TypeOK, Time
<1>11. TypeOK'
  BY <1>6, <1>8, <1>9, <1>10, KeyAcceptedType DEF IInv, TypeOK, Time
<1>12. Unmade' /\ ViewsInv'
  <2>1. rec'.left # Unlimited => opened' + rec'.left = rec'.views
    <3>1. SUFFICES ASSUME rec.left # Unlimited, rec'.left = rec.left - 1, opened' = opened + 1
                   PROVE  opened' + rec'.left = rec.views
      BY <1>8
    <3>2. rec.left \in Int /\ opened + rec.left = rec.views
      BY <1>1, <1>2, <3>1, SizesAssumption DEF IInv, ViewsInv, Limit
    <3> QED
      BY <1>1, <3>1, <3>2
  <2> QED
    BY <1>1, <1>8, <1>9, <2>1 DEF IInv, Unmade, ViewsInv
<1>13. AlarmInv'
  <2>1. CASE rec'.state = "closed"
    BY <1>1, <1>8, <2>1 DEF AlarmInv, Due, Most, NoTime
  <2>2. CASE rec'.state = "active"
    BY <1>1, <1>8, <2>2 DEF IInv, AlarmInv, Due
  <2> QED
    BY <1>8, <2>1, <2>2
<1>14. GrantInv'
  BY <1>5, <1>7, <1>8 DEF GrantInv
<1>15. R2Inv' /\ Apart' /\ Whole'
  BY <1>1, <1>8, <1>9, ChunksKept
<1> QED
  BY <1>5, <1>11, <1>12, <1>13, <1>14, <1>15 DEF IInv

\* The outcomes that neither release nor delete.
LEMMA IInvRefused ==
    ASSUME IInv, Serving, NEW outcome, Refused(outcome), UNCHANGED <<now, made, r2, put, opened, lost, faults>>
    PROVE  IInv'
<1>1. pw \in PwState /\ guesses \in Nat /\ born \in 0 .. now /\ now \in Nat
  BY SizesAssumption DEF IInv, TypeOK
<1>2. CASE outcome = "gone" /\ Lapse
  BY <1>2, IInvLapse
<1>3. CASE UNCHANGED <<recVars, purge>>
  BY <1>1, <1>3, IInvFramed DEF recVars
<1>4. CASE outcome = "bad_password" /\ UNCHANGED <<rec, grants, alarm, purge>>
  <2>1. pw' \in PwState /\ guesses' \in Nat /\ born' = born
    BY <1>1, <1>2, <1>3, <1>4, PwFailedType DEF Refused
  <2> QED
    BY <1>1, <1>4, <2>1, IInvFramed
<1> QED
  BY <1>2, <1>3, <1>4 DEF Refused

LEMMA IInvOpen ==
    ASSUME IInv, NEW client \in Clients, NEW link \in BOOLEAN, NEW key \in BOOLEAN, NEW human \in BOOLEAN,
           Open(client, link, key, human)
    PROVE  IInv'
<1>1. CASE Refused(Outcome(link, key, human)) /\ UNCHANGED opened
  BY <1>1, IInvRefused DEF Open
<1>2. CASE Outcome(link, key, human) = "right" /\ KeyAccepted /\ UNCHANGED purge /\ Busy(client) /\ UNCHANGED <<rec, grants, alarm, opened>>
  BY <1>2, KeyAcceptedType, IInvFramed DEF Open
<1>3. CASE Outcome(link, key, human) = "right" /\ KeyAccepted /\ UNCHANGED purge /\ ~Busy(client) /\ Release(client)
  <2>1. LiveIn({"active"})
    BY <1>3 DEF Outcome
  <2> QED
    BY <1>3, <2>1, IInvRelease DEF Open
<1> QED
  BY <1>1, <1>2, <1>3 DEF Open

LEMMA IInvExpireByOpener ==
    ASSUME IInv, NEW link \in BOOLEAN, NEW key \in BOOLEAN, NEW human \in BOOLEAN,
           ExpireByOpener(link, key, human)
    PROVE  IInv'
<1>1. CASE Refused(Outcome(link, key, human))
  BY <1>1, IInvRefused DEF ExpireByOpener
<1>2. CASE /\ Outcome(link, key, human) = "right" /\ KeyAccepted
           /\ purge' = (IF rec.deletable THEN "chunks" ELSE purge) /\ UNCHANGED <<rec, grants, alarm>>
  <2>1. rec # NoRec /\ purge = "no"
    BY <1>2 DEF Outcome, LiveIn, ExpireByOpener, Serving
  <2> QED
    BY <1>2, <2>1, KeyAcceptedType, IInvFramed DEF ExpireByOpener
<1> QED
  BY <1>1, <1>2 DEF ExpireByOpener

\* The holder of a live grant keeps it open, by one more window at most.
LEMMA IInvProlong ==
    ASSUME IInv, Serving, NEW h \in Hashes, NEW human \in BOOLEAN, NEW g \in Extendable(h, human), Prolong(g),
           UNCHANGED <<now, made, r2, put, opened, lost, faults>>
    PROVE  IInv'
<1> DEFINE end == ExtendedEnd(g)
           longer == [g EXCEPT !.exp = end, !.n = g.n + 1]
<1>1. /\ rec \in Rec /\ rec # NoRec /\ rec.state \in {"active", "closed"} /\ now \in Nat /\ grants \subseteq Grant
      /\ g \in LiveGrants /\ g \in grants /\ g \in Grant /\ g.n < MaxGrantExtensions /\ g.exp > now
  BY SizesAssumption DEF IInv, TypeOK, Extendable, LiveIn, LiveGrants
<1>2. /\ g.exp \in Nat /\ g.f \in Nat /\ g.n \in Nat /\ g.n + 1 \in 0 .. MaxGrantExtensions /\ rec.expires \in Nat
      /\ g.exp <= rec.expires /\ g.exp <= g.f + g.n * GrantSec /\ g.n * GrantSec \in Nat
      /\ rec.state = "closed" => g.exp <= rec.purgeAt
  BY <1>1, SizesAssumption DEF Grant, Rec, Time, IInv, GrantInv
<1>3. /\ end \in Nat /\ end >= g.exp /\ end <= rec.expires /\ end <= g.exp + GrantSec
  BY <1>1, <1>2, SizesAssumption DEF ExtendedEnd, Least, Most
<1>4. /\ longer \in Grant /\ longer.exp = end /\ longer.n = g.n + 1 /\ longer.f = g.f /\ longer.c = g.c
  BY <1>1, <1>2, <1>3 DEF Grant, Time
<1>5. longer.exp <= longer.f + longer.n * GrantSec
  <2>1. (g.n + 1) * GrantSec = g.n * GrantSec + GrantSec
    BY <1>2, SizesAssumption
  <2> QED
    BY <1>2, <1>3, <1>4, <2>1, SizesAssumption
<1>6. grants' = (LiveGrants \ {g}) \cup {longer} /\ UNCHANGED <<pw, guesses, born, purge>>
  BY DEF Prolong
<1>7. grants' \subseteq Grant /\ \A o \in grants' : o \in grants \/ o = longer
  BY <1>1, <1>4, <1>6 DEF LiveGrants
\* The record waits for it.
<1>8. /\ rec' \in Rec /\ rec' # NoRec /\ rec'.refs = rec.refs /\ rec'.stored = rec.stored /\ rec'.expires = rec.expires
      /\ rec'.views = rec.views /\ rec'.left = rec.left /\ rec'.state = rec.state
      /\ (rec' = rec /\ alarm' = alarm) \/ (rec'.state = "closed" /\ rec'.purgeAt = end /\ alarm' = end)
      /\ rec.state = "closed" => rec'.purgeAt >= rec.purgeAt /\ rec'.purgeAt >= end /\ rec'.purgeAt \in Nat
  <2>1. CASE Waits(end)
    <3>1. rec' = [rec EXCEPT !.purgeAt = end] /\ alarm' = end /\ rec.state = "closed" /\ end > rec.purgeAt
      BY <2>1 DEF Prolong, Waits
    <3>2. /\ rec' \in Rec /\ rec'.refs = rec.refs /\ rec'.stored = rec.stored /\ rec'.expires = rec.expires
          /\ rec'.views = rec.views /\ rec'.left = rec.left /\ rec'.state = rec.state /\ rec'.purgeAt = end
      BY <1>1, <1>3, <3>1 DEF Rec, Time
    <3>3. rec.purgeAt \in Nat
      BY <1>1 DEF Rec, Time
    <3> QED
      BY <1>3, <3>1, <3>2, <3>3, NoRecAssumption
  <2>2. CASE ~Waits(end)
    <3>1. rec' = rec /\ alarm' = alarm /\ (rec.state = "closed" => end <= rec.purgeAt) /\ rec.purgeAt \in Nat
      BY <1>1, <1>3, <2>2 DEF Prolong, Waits, Rec, Time
    <3> QED
      BY <1>1, <3>1
  <2> QED
    BY <2>1, <2>2
<1>9. TypeOK'
  BY <1>3, <1>6, <1>7, <1>8 DEF IInv, TypeOK, Time
<1>10. Unmade' /\ ViewsInv'
  BY <1>1, <1>8 DEF IInv, Unmade, ViewsInv
<1>11. AlarmInv'
  <2>1. CASE rec' = rec /\ alarm' = alarm
    BY <1>6, <2>1 DEF IInv, AlarmInv, Due
  <2>2. CASE rec'.state = "closed" /\ rec'.purgeAt = end /\ alarm' = end
    BY <1>1, <1>3, <2>2 DEF AlarmInv, Due, Most, NoTime
  <2> QED
    BY <1>8, <2>1, <2>2
<1>12. IsFiniteSet(LiveGrants) /\ \A c : IsFiniteSet(Mine(c)) /\ Cardinality(Mine(c)) \in Nat
  BY LiveFinite DEF IInv
<1>13. GrantInv'
  <2>1. IsFiniteSet(grants')
    <3>1. grants' \subseteq (LiveGrants \ {g}) \cup {longer}
      BY <1>6
    <3> QED
      BY <1>1, <1>12, <3>1, InPlaceOf
  <2>2. ASSUME NEW o \in grants'
        PROVE  /\ o.exp <= rec'.expires /\ o.exp <= o.f + o.n * GrantSec
               /\ rec'.state = "closed" => o.exp <= rec'.purgeAt
    <3>1. CASE o = longer
      BY <1>3, <1>4, <1>5, <1>8, <3>1
    <3>2. CASE o \in grants
      <4>1. o.exp \in Nat /\ rec.purgeAt \in Nat
        BY <1>1, <3>2 DEF Grant, Rec, Time
      <4> QED
        BY <1>1, <1>8, <3>2, <4>1 DEF IInv, GrantInv
    <3> QED
      BY <1>7, <3>1, <3>2
  <2> QED
    BY <2>1, <2>2 DEF GrantInv
<1>14. GrantsBounded'
  <2>1. LiveGrants' \subseteq (LiveGrants \ {g}) \cup {longer}
    BY <1>6 DEF LiveGrants
  <2>2. Cardinality(LiveGrants') <= MaxActiveGrants
    <3>1. Cardinality(LiveGrants') \in Nat /\ Cardinality(LiveGrants') <= Cardinality(LiveGrants)
      BY <1>1, <1>12, <2>1, InPlaceOf
    <3> QED
      BY <1>12, <3>1, FS_CardinalityType, SizesAssumption DEF IInv, GrantsBounded
  <2>3. ASSUME NEW c \in Clients PROVE Cardinality(Mine(c)') <= MaxGrantsPerClient
    <3>1. CASE c = g.c
      <4>1. g \in Mine(c) /\ Mine(c)' \subseteq (Mine(c) \ {g}) \cup {longer}
        BY <1>1, <2>1, <3>1 DEF Mine
      <4>2. Cardinality(Mine(c)') \in Nat /\ Cardinality(Mine(c)') <= Cardinality(Mine(c))
        BY <1>12, <4>1, InPlaceOf
      <4> QED
        BY <1>12, <4>2, SizesAssumption DEF IInv, GrantsBounded
    <3>2. CASE c # g.c
      <4>1. Mine(c)' \subseteq Mine(c)
        BY <1>4, <2>1, <3>2 DEF Mine
      <4>2. Cardinality(Mine(c)') \in Nat /\ Cardinality(Mine(c)') <= Cardinality(Mine(c))
        BY <1>12, <4>1, FewerGrants
      <4> QED
        BY <1>12, <4>2, SizesAssumption DEF IInv, GrantsBounded
    <3> QED
      BY <3>1, <3>2
  <2> QED
    BY <2>2, <2>3 DEF GrantsBounded
<1>15. R2Inv' /\ Apart' /\ Whole'
  BY <1>1, <1>6, <1>8, ChunksKept
<1> QED
  BY <1>9, <1>10, <1>11, <1>13, <1>14, <1>15 DEF IInv

LEMMA IInvExtendGrant ==
    ASSUME IInv, NEW h \in Hashes, NEW human \in BOOLEAN, ExtendGrant(h, human)
    PROVE  IInv'
<1>1. CASE Lapse
  BY <1>1, IInvLapse DEF ExtendGrant
<1>2. CASE \E g \in Extendable(h, human) : Prolong(g)
  BY <1>2, IInvProlong DEF ExtendGrant
<1> QED
  BY <1>1, <1>2 DEF ExtendGrant

\* Views, once raised, come with those spent before.
LEMMA LeftAfterRaise ==
    ASSUME IInv, LiveIn({"active"}), NEW views \in Limit \cup {Keep}, ViewsRaised(views)
    PROVE  LET total == IF views = Keep THEN rec.views ELSE views
               left == LeftAfter(views)
           IN  /\ total \in Limit /\ left \in Limit
               /\ left = Unlimited <=> total = Unlimited
               /\ left # Unlimited => opened + left = total
<1>1. /\ rec.views \in Limit /\ rec.left \in Limit /\ opened \in Nat
      /\ rec.left = Unlimited <=> rec.views = Unlimited
      /\ rec.left # Unlimited => opened + rec.left = rec.views
  BY DEF LiveIn, IInv, TypeOK, Rec, ViewsInv
<1>2. CASE views = Keep \/ views = Unlimited
  BY <1>1, <1>2 DEF LeftAfter, Limit, Keep, Unlimited
<1>3. CASE views # Keep /\ views # Unlimited
  <2>1. /\ views \in 1 .. MaxViews /\ rec.views \in 1 .. MaxViews /\ views > rec.views /\ rec.views # Unlimited
        /\ rec.left \in 1 .. MaxViews /\ rec.left # Unlimited /\ opened + rec.left = rec.views
    BY <1>1, <1>3 DEF ViewsRaised, Limit
  <2>2. LeftAfter(views) = views - opened /\ LeftAfter(views) \in 1 .. MaxViews
    BY <1>1, <1>3, <2>1, SizesAssumption DEF LeftAfter
  <2> QED
    BY <1>1, <1>3, <2>1, <2>2, SizesAssumption DEF Limit, Unlimited
<1> QED
  BY <1>2, <1>3

LEMMA IInvExtend ==
    ASSUME IInv, NEW views \in Limit \cup {Keep}, NEW expires \in Nat \cup {Keep}, Extend(views, expires)
    PROVE  IInv'
<1>1. CASE ~(LiveIn({"active"}) /\ ViewsRaised(views) /\ (expires = Keep \/ expires > rec.expires))
  BY <1>1, IInvLapse DEF Extend
<1>2. CASE LiveIn({"active"}) /\ ViewsRaised(views) /\ (expires = Keep \/ expires > rec.expires)
  <2> DEFINE total == IF views = Keep THEN rec.views ELSE views
             left == LeftAfter(views)
             told == IF expires = Keep THEN rec.expires ELSE expires
  <2>1. /\ rec \in Rec /\ rec # NoRec /\ rec.state = "active" /\ rec.expires \in Nat /\ grants \subseteq Grant
        /\ now \in Nat /\ made
    BY <1>2, SizesAssumption DEF LiveIn, IInv, TypeOK, Rec, Time, Unmade
  <2>2. /\ total \in Limit /\ left \in Limit
        /\ left = Unlimited <=> total = Unlimited
        /\ left # Unlimited => opened + left = total
    BY <1>2, LeftAfterRaise
  <2>3. told \in Nat /\ told >= rec.expires
    BY <1>2, <2>1
  <2>4. /\ rec' = [rec EXCEPT !.views = total, !.left = left, !.expires = told]
        /\ alarm' = (IF expires = Keep THEN alarm ELSE told)
        /\ UNCHANGED <<now, grants, pw, guesses, born, made, purge, r2, put, opened, lost, faults>>
    BY <1>2 DEF Extend, AlarmAfter
  <2>5. rec' \in Rec
    BY <2>1, <2>2, <2>3, <2>4 DEF Rec, Time
  <2>6. /\ rec' # NoRec /\ rec'.refs = rec.refs /\ rec'.stored = rec.stored /\ rec'.state = "active"
        /\ rec'.views = total /\ rec'.left = left /\ rec'.expires = told
    BY <2>1, <2>4, <2>5, NoRecAssumption DEF Rec
  <2>7. alarm' \in Nat \cup {NoTime}
    BY <2>3, <2>4 DEF IInv, TypeOK, Time
  <2>8. TypeOK'
    BY <2>4, <2>5, <2>7 DEF IInv, TypeOK, Time
  <2>9. Unmade' /\ ViewsInv'
    <3>1. left # 0
      BY <2>2, SizesAssumption DEF Limit, Unlimited
    <3> QED
      BY <2>1, <2>2, <2>4, <2>6, <3>1 DEF Unmade, ViewsInv
  <2>10. AlarmInv'
    <3>1. CASE expires = Keep
      BY <2>1, <2>4, <2>6, <3>1 DEF IInv, AlarmInv, Due
    <3>2. CASE expires # Keep
      BY <2>1, <2>3, <2>4, <2>6, <3>2 DEF AlarmInv, Due, Most, NoTime
    <3> QED
      BY <3>1, <3>2
  <2>11. GrantInv' /\ GrantsBounded'
    <3>1. LiveGrants' = LiveGrants
      BY <2>4 DEF LiveGrants
    <3>2. \A g \in grants : g.exp <= told
      BY <2>1, <2>3 DEF IInv, GrantInv, Grant, Time
    <3>3. GrantInv'
      BY <2>1, <2>4, <2>6, <3>2 DEF IInv, GrantInv
    <3> QED
      BY <3>1, <3>3, BoundedIfFewer DEF IInv, GrantInv
  <2>12. R2Inv' /\ Apart' /\ Whole'
    BY <2>1, <2>4, <2>6, ChunksKept
  <2> QED
    BY <2>8, <2>9, <2>10, <2>11, <2>12 DEF IInv
<1> QED
  BY <1>1, <1>2

LEMMA IInvAlarm ==
    ASSUME IInv, Alarm
    PROVE  IInv'
<1>1. /\ rec # NoRec /\ purge = "no" /\ Due \in Nat /\ rec \in Rec /\ now \in Nat
  BY SizesAssumption DEF Alarm, Serving, IInv, Unmade, TypeOK, Rec, Time, Due
<1>2. /\ UNCHANGED <<now, rec, grants, pw, guesses, born, made, r2, put, opened, lost, faults>>
      /\ \/ purge' = "chunks" /\ alarm' = NoTime
         \/ purge' = "no" /\ alarm' = Due
  BY <1>1 DEF Alarm
<1>3. TypeOK'
  BY <1>1, <1>2 DEF IInv, TypeOK, Time
<1>4. Unmade' /\ ViewsInv'
  BY <1>1, <1>2 DEF IInv, Unmade, ViewsInv
<1>5. AlarmInv'
  BY <1>1, <1>2 DEF AlarmInv, Due, Most, NoTime
<1>6. GrantInv' /\ GrantsBounded'
  <2>1. LiveGrants' = LiveGrants
    BY <1>2 DEF LiveGrants
  <2> QED
    BY <1>2, <2>1, BoundedIfFewer DEF IInv, GrantInv
<1>7. R2Inv' /\ Apart' /\ Whole'
  BY <1>1, <1>2, ChunksKept
<1> QED
  BY <1>3, <1>4, <1>5, <1>6, <1>7 DEF IInv

LEMMA IInvNext == IInv /\ [Next]_vars => IInv'
<1> SUFFICES ASSUME IInv, [Next]_vars PROVE IInv'
  OBVIOUS
<1>1. ASSUME NEW views \in Limit, NEW kind \in Kinds, InitUpload(views, kind) \/ InitRefs(views, kind)
      PROVE  IInv'
  BY <1>1, IInvInitUpload, IInvInitRefs
<1>2. ASSUME NEW q \in Puts, NEW i \in Chunks, AuthorizeChunk(q, i)
      PROVE  IInv'
  BY <1>2, IInvAuthorizeChunk
<1>3. ASSUME NEW q \in Puts, WriteChunk(q) \/ CommitChunk(q) \/ UndoChunk(q) \/ AbandonPut(q)
      PROVE  IInv'
  BY <1>3, IInvWriteChunk, IInvCommitChunk, IInvUndoChunk, IInvAbandonPut
<1>4. CASE Finalize
  BY <1>4, IInvFinalize
<1>5. ASSUME NEW client \in Clients, NEW link \in BOOLEAN, NEW key \in BOOLEAN, NEW human \in BOOLEAN,
             Open(client, link, key, human)
      PROVE  IInv'
  BY <1>5, IInvOpen
<1>6. ASSUME NEW link \in BOOLEAN, NEW key \in BOOLEAN, NEW human \in BOOLEAN, ExpireByOpener(link, key, human)
      PROVE  IInv'
  BY <1>6, IInvExpireByOpener
<1>7. ASSUME NEW h \in Hashes, NEW human \in BOOLEAN, ExtendGrant(h, human)
      PROVE  IInv'
  BY <1>7, IInvExtendGrant
<1>8. ASSUME NEW views \in Limit \cup {Keep}, NEW expires \in (now + 1 .. MaxTime) \cup {Keep}, Extend(views, expires)
      PROVE  IInv'
  <2>1. expires \in Nat \cup {Keep}
    BY SizesAssumption DEF IInv, TypeOK
  <2> QED
    BY <1>8, <2>1, IInvExtend
<1>9. ASSUME NEW token \in BOOLEAN, RemoveByToken(token)
      PROVE  IInv'
  BY <1>9, IInvLapse, IInvStartPurge DEF RemoveByToken, LiveIn
<1>10. CASE Look \/ Revoke
  BY <1>10, IInvLapse, IInvStartPurge DEF Look, Revoke
<1>11. CASE Alarm
  BY <1>11, IInvAlarm
<1>12. CASE PurgeChunks \/ PurgeFails \/ PurgeRecord
  BY <1>12, IInvPurgeChunks, IInvPurgeFails, IInvPurgeRecord
<1>13. CASE Tick
  BY <1>13, IInvTick
<1>14. CASE UNCHANGED vars
  <2>1. pw \in PwState /\ guesses \in Nat /\ born \in 0 .. now
    BY DEF IInv, TypeOK
  <2> QED
    BY <1>14, <2>1, IInvFramed DEF vars
<1> QED
  BY <1>1, <1>2, <1>3, <1>4, <1>5, <1>6, <1>7, <1>8, <1>9, <1>10, <1>11, <1>12, <1>13, <1>14 DEF Next

LEMMA IInvAlways == Spec => []IInv
  BY IInvInit, IInvNext, PTL DEF Spec

-----------------------------------------------------------------------------
LEMMA IInvImplies == IInv => FileKept
<1> SUFFICES ASSUME IInv PROVE FileKept
  OBVIOUS
<1>1. TypeOK /\ GrantsBounded
  BY DEF IInv
<1>2. ViewsConserved
  BY DEF IInv, ViewsInv, ViewsConserved
<1>3. GrantLifeBounded
  BY DEF IInv, GrantInv, GrantLifeBounded
<1>4. AlarmCovers
  BY DEF IInv, AlarmInv, AlarmCovers
<1>5. NoOrphans
  BY DEF IInv, R2Inv, Accounted, NoOrphans
<1>6. FinalizedComplete
  BY DEF IInv, Whole, TypeOK, FinalizedComplete
<1> QED
  BY <1>1, <1>2, <1>3, <1>4, <1>5, <1>6 DEF FileKept

\* Only a new grant takes the place of another client's, and only of one past its first window.
LEMMA OpenKeepsFirstWindow == IInv /\ Next => FirstWindowKept
<1> SUFFICES ASSUME IInv, NEW c \in Clients, NEW link \in BOOLEAN, NEW key \in BOOLEAN, NEW human \in BOOLEAN,
                    Open(c, link, key, human), NEW g \in LiveGrants, g.c # c, g.f > now
             PROVE  g \in grants'
  BY DEF FirstWindowKept
<1>1. g \in grants /\ g \in Grant /\ now \in Nat
  BY SizesAssumption DEF LiveGrants, IInv, TypeOK
<1>2. CASE UNCHANGED grants
  BY <1>1, <1>2
<1>3. CASE Release(c)
  <2>1. PICK kept \in Kept(c) : kept \subseteq grants'
    BY <1>3 DEF Release
  <2>2. g \notin MayGiveWay(c)
    BY <1>1 DEF MayGiveWay, Mine, PastFirstWindow, Grant, Time
  <2>3. g \in kept
    BY <2>2 DEF Kept, EndFirst
  <2> QED
    BY <2>1, <2>3
<1> QED
  BY <1>2, <1>3 DEF Open, Refused, Lapse, StartPurge, recVars

\* A share that ends by itself has no download left to wait for.
LEMMA EndsAfterGrants == IInv /\ Next => GrantsHonoured
<1> SUFFICES ASSUME IInv, Alarm \/ Look, purge' # purge PROVE LiveGrants = {}
  BY DEF GrantsHonoured
<1>1. /\ rec # NoRec
      /\ \/ rec.state = "pending"
         \/ rec.state # "pending" /\ now >= rec.expires
         \/ rec.state = "closed" /\ now >= rec.purgeAt
  BY DEF Alarm, Look, Lapse, StartPurge, Dead, Due, IInv, Unmade
<1>2. now \in Nat /\ grants \subseteq Grant /\ rec \in Rec
  BY <1>1, SizesAssumption DEF IInv, TypeOK
<1>3. CASE rec.state = "pending"
  BY <1>1, <1>3 DEF IInv, ViewsInv, LiveGrants
<1>4. CASE rec.state # "pending" /\ now >= rec.expires
  <2>1. \A g \in grants : g.exp \in Nat /\ g.exp <= rec.expires /\ rec.expires \in Nat
    BY <1>1, <1>2 DEF IInv, GrantInv, Grant, Rec, Time
  <2> QED
    BY <1>2, <1>4, <2>1 DEF LiveGrants
<1>5. CASE rec.state = "closed" /\ now >= rec.purgeAt
  <2>1. \A g \in grants : g.exp \in Nat /\ g.exp <= rec.purgeAt /\ rec.purgeAt \in Nat
    BY <1>1, <1>2, <1>5 DEF IInv, GrantInv, Grant, Rec, Time
  <2> QED
    BY <1>2, <1>5, <2>1 DEF LiveGrants
<1> QED
  BY <1>1, <1>3, <1>4, <1>5

\* A file share keeps its promises for every limit, rule, number of chunks and of requests in flight:
\* views add up, the table of grants and each grant stay bounded, no end goes unnoticed, a finalized
\* share is whole, R2 holds nothing of one that is gone (fileshare-do.js).
THEOREM FileShareKept == Spec => []FileKept
  BY IInvAlways, IInvImplies, PTL

\* No open cuts another client's first window short, and a share that ends on its own has waited for
\* the downloads it granted (fileshare-do.js open, alarm).
THEOREM FileGrantsKept == Spec => [][GrantsKept]_vars
<1>1. IInv /\ [Next]_vars => [GrantsKept]_vars
  BY OpenKeepsFirstWindow, EndsAfterGrants DEF GrantsKept
<1> QED
  BY <1>1, IInvAlways, PTL DEF Spec

\* No chunk of a share that is gone stays in R2, whatever failed and was tried again, but for writes
\* nobody came back for (fileshare-do.js #purge, routes/private.js putChunk).
THEOREM FileNoOrphans == Spec => []NoOrphans
<1>1. IInv => NoOrphans
  BY IInvImplies DEF FileKept
<1> QED
  BY <1>1, IInvAlways, PTL

\* Unless a chunk is sent again, an upload that is undone deletes nothing a record refers to: what
\* the run chunk_resent finds takes a chunk sent twice (routes/private.js putChunk).
THEOREM FileUndoSafe ==
    ASSUME ~Retries
    PROVE  Spec => [][UndoesOnlyUnreferenced]_vars
<1>1. IInv /\ [Next]_vars => [UndoesOnlyUnreferenced]_vars
  BY DEF IInv, Apart, UndoChunk, UndoesOnlyUnreferenced
<1> QED
  BY <1>1, IInvAlways, PTL DEF Spec

-----------------------------------------------------------------------------
\* The promise is stated over the same arithmetic.
LEMMA SameArithmetic ==
    /\ Lockout!NoFails = NoFails
    /\ \A st, t : Lockout!PwLocked(st, t) <=> PwLocked(st, t)
    /\ \A st, t : Lockout!PwFailed(st, t) = PwFailed(st, t)
<1>1. Lockout!NoFails = NoFails
  BY DEF NoFails, Lockout!NoFails, NoTime, Lockout!NoTime
<1>2. \A st, t : Lockout!PwLocked(st, t) <=> PwLocked(st, t)
  BY DEF PwLocked, Lockout!PwLocked, NoTime, Lockout!NoTime
<1>3. \A st, t : Lockout!FailsAt(st, t) = FailsAt(st, t)
  BY DEF FailsAt, Lockout!FailsAt, NoTime, Lockout!NoTime
<1>4. \A s : Lockout!LockSeconds(s) = LockSeconds(s)
  <2>1. \A s : Lockout!LockFactor(s) = LockFactor(s)
    BY DEF LockFactor, Lockout!LockFactor, Least, Lockout!Least, Most, Lockout!Most
  <2> QED
    BY <2>1 DEF LockSeconds, Lockout!LockSeconds, Least, Lockout!Least, Most, Lockout!Most
<1>5. \A st, t : Lockout!PwFailed(st, t) = PwFailed(st, t)
  BY <1>3, <1>4 DEF PwFailed, Lockout!PwFailed, NoTime, Lockout!NoTime
<1> QED
  BY <1>1, <1>2, <1>5

\* Every step of the share is a step of the lockout it promises: a wrong password that is checked, a
\* count cleared, the clock, or none.
LEMMA RefinesNext == [Next]_vars => [Lockout!Next]_(Lockout!lockoutVars)
<1> DEFINE Refines == [Lockout!Next]_(Lockout!lockoutVars)
<1> SUFFICES ASSUME [Next]_vars PROVE Refines
  OBVIOUS
<1>1. UNCHANGED <<now, recVars>> => UNCHANGED Lockout!lockoutVars
  BY DEF recVars, Lockout!lockoutVars
<1>2. UNCHANGED now /\ Lapse => UNCHANGED Lockout!lockoutVars
  BY <1>1 DEF Lapse, StartPurge
<1>3. UNCHANGED now /\ KeyAccepted => Lockout!Clear \/ UNCHANGED Lockout!lockoutVars
  BY SameArithmetic DEF KeyAccepted, Lockout!Clear, Lockout!lockoutVars
<1>4. ASSUME NEW link \in BOOLEAN, NEW key \in BOOLEAN, NEW human \in BOOLEAN,
             Refused(Outcome(link, key, human)), UNCHANGED now
      PROVE  Lockout!Wrong \/ UNCHANGED Lockout!lockoutVars
  <2>1. CASE Outcome(link, key, human) = "bad_password" /\ rec.password /\ pw' = PwFailed(pw, now)
             /\ guesses' = guesses + 1 /\ UNCHANGED born
    <3>1. ~PwLocked(pw, now)
      BY <2>1 DEF Outcome, KeyProof
    <3> QED
      BY <1>4, <2>1, <3>1, SameArithmetic DEF Lockout!Wrong
  <2>2. CASE UNCHANGED <<pw, guesses, born>>
    BY <1>4, <2>2 DEF Lockout!lockoutVars
  <2> QED
    BY <1>1, <1>2, <1>4, <2>1, <2>2 DEF Refused
<1>5. ASSUME NEW views \in Limit, NEW kind \in Kinds, InitUpload(views, kind) \/ InitRefs(views, kind)
      PROVE  Refines
  BY <1>5 DEF InitUpload, InitRefs, Lockout!lockoutVars
<1>6. ASSUME NEW q \in Puts, NEW i \in Chunks, AuthorizeChunk(q, i)
      PROVE  Refines
  BY <1>1, <1>2, <1>6 DEF AuthorizeChunk, Lockout!lockoutVars
<1>7. ASSUME NEW q \in Puts, WriteChunk(q) \/ CommitChunk(q) \/ UndoChunk(q) \/ AbandonPut(q)
      PROVE  Refines
  BY <1>1, <1>2, <1>7 DEF WriteChunk, CommitChunk, UndoChunk, AbandonPut, Lockout!lockoutVars
<1>8. CASE Finalize \/ Look \/ Revoke
  BY <1>1, <1>2, <1>8 DEF Look, Revoke, Finalize, StartPurge, Lockout!lockoutVars
<1>9. ASSUME NEW client \in Clients, NEW link \in BOOLEAN, NEW key \in BOOLEAN, NEW human \in BOOLEAN,
             Open(client, link, key, human)
      PROVE  Refines
  BY <1>3, <1>4, <1>9 DEF Open, Lockout!Next
<1>10. ASSUME NEW link \in BOOLEAN, NEW key \in BOOLEAN, NEW human \in BOOLEAN, ExpireByOpener(link, key, human)
       PROVE  Refines
  BY <1>3, <1>4, <1>10 DEF ExpireByOpener, Lockout!Next
<1>11. ASSUME NEW h \in Hashes, NEW human \in BOOLEAN, ExtendGrant(h, human)
       PROVE  Refines
  BY <1>2, <1>11 DEF ExtendGrant, Prolong, Lockout!lockoutVars
<1>12. ASSUME NEW views \in Limit \cup {Keep}, NEW expires \in (now + 1 .. MaxTime) \cup {Keep}, Extend(views, expires)
       PROVE  Refines
  BY <1>2, <1>12 DEF Extend, Lockout!lockoutVars
<1>13. ASSUME NEW token \in BOOLEAN, RemoveByToken(token)
       PROVE  Refines
  BY <1>1, <1>2, <1>13 DEF RemoveByToken, StartPurge, Lockout!lockoutVars
<1>14. CASE Alarm \/ PurgeChunks \/ PurgeFails
  BY <1>14 DEF Alarm, PurgeChunks, PurgeFails, recVars, Lockout!lockoutVars
<1>15. CASE PurgeRecord
  BY <1>15, SameArithmetic DEF PurgeRecord, Lockout!Clear, Lockout!Next
<1>16. CASE Tick
  BY <1>16 DEF Tick, recVars, Lockout!Tick, Lockout!Next
<1>17. CASE UNCHANGED vars
  BY <1>17 DEF vars, Lockout!lockoutVars
<1> HIDE DEF Refines
<1> QED
  BY <1>5, <1>6, <1>7, <1>8, <1>9, <1>10, <1>11, <1>12, <1>13, <1>14, <1>15, <1>16, <1>17 DEF Next

\* The lockout a file share keeps is the one promised, for every rule.
THEOREM FileLockoutKept == Spec => Lockout!Spec
<1>1. Init => Lockout!Init
  BY SameArithmetic, SizesAssumption DEF Init, Lockout!Init
<1> QED
  BY <1>1, RefinesNext, PTL DEF Spec, Lockout!Spec

LockoutTheory == INSTANCE PasswordLockoutProofs

\* The two instances of PasswordLockout are one: their arithmetic and their specifications agree.
LEMMA SameLockout ==
    /\ LockoutTheory!NoFails = Lockout!NoFails
    /\ \A st, t : LockoutTheory!PwLocked(st, t) <=> Lockout!PwLocked(st, t)
    /\ \A st, t : LockoutTheory!PwFailed(st, t) = Lockout!PwFailed(st, t)
    /\ \A s : LockoutTheory!LockSeconds(s) = Lockout!LockSeconds(s)
<1>1. LockoutTheory!NoFails = Lockout!NoFails /\ \A st, t : LockoutTheory!PwLocked(st, t) <=> Lockout!PwLocked(st, t)
  BY DEF Lockout!NoFails, LockoutTheory!NoFails, Lockout!NoTime, LockoutTheory!NoTime,
     Lockout!PwLocked, LockoutTheory!PwLocked
<1>2. \A s : LockoutTheory!LockFactor(s) = Lockout!LockFactor(s)
  BY DEF Lockout!LockFactor, LockoutTheory!LockFactor, Lockout!Least, LockoutTheory!Least,
     Lockout!Most, LockoutTheory!Most
<1>3. \A s : LockoutTheory!LockSeconds(s) = Lockout!LockSeconds(s)
  BY <1>2 DEF Lockout!LockSeconds, LockoutTheory!LockSeconds, Lockout!Least, LockoutTheory!Least,
     Lockout!Most, LockoutTheory!Most
<1>4. \A st, t : LockoutTheory!FailsAt(st, t) = Lockout!FailsAt(st, t)
  BY DEF Lockout!FailsAt, LockoutTheory!FailsAt, Lockout!NoTime, LockoutTheory!NoTime
<1>5. \A st, t : LockoutTheory!PwFailed(st, t) = Lockout!PwFailed(st, t)
  BY <1>3, <1>4 DEF Lockout!PwFailed, LockoutTheory!PwFailed, Lockout!NoTime, LockoutTheory!NoTime
<1> QED
  BY <1>1, <1>3, <1>5

LEMMA LockoutTheoryApplies == Spec => LockoutTheory!Spec
<1>1. Lockout!Init => LockoutTheory!Init
  BY SameLockout DEF Lockout!Init, LockoutTheory!Init
<1>2. [Lockout!Next]_(Lockout!lockoutVars) => [LockoutTheory!Next]_(LockoutTheory!lockoutVars)
  BY SameLockout DEF Lockout!Next, LockoutTheory!Next, Lockout!Wrong, LockoutTheory!Wrong,
     Lockout!Clear, LockoutTheory!Clear, Lockout!Tick, LockoutTheory!Tick,
     Lockout!lockoutVars, LockoutTheory!lockoutVars
<1> QED
  BY <1>1, <1>2, FileLockoutKept, PTL DEF Lockout!Spec, LockoutTheory!Spec

\* However often a file share is opened, extended and guessed at, by whichever client and call, the
\* wrong passwords evaluated for it stay within the bound.
THEOREM FileGuessesBounded == Spec => []Lockout!GuessesBounded
<1>1. LockoutTheory!GuessesBounded => Lockout!GuessesBounded
  BY DEF Lockout!GuessesBounded, LockoutTheory!GuessesBounded, Lockout!Period, LockoutTheory!Period,
     Lockout!Least, LockoutTheory!Least
<1>2. LockoutTheory!Spec => []LockoutTheory!GuessesBounded
  BY LockoutTheory!LockoutBounded, PwRuleAssumption, SizesAssumption DEF LockoutTheory!LockoutBounded
<1> QED
  BY <1>1, <1>2, LockoutTheoryApplies, PTL

\* And each of its locks lasts its full, growing time.
THEOREM FileLocksEscalate == Spec => []Lockout!LocksEscalate
<1>1. LockoutTheory!LockedTime = Lockout!LockedTime
  BY SameLockout DEF Lockout!LockedTime, LockoutTheory!LockedTime
<1>2. LockoutTheory!LocksEscalate => Lockout!LocksEscalate
  BY <1>1 DEF Lockout!LocksEscalate, LockoutTheory!LocksEscalate, Lockout!NoTime, LockoutTheory!NoTime
<1>3. LockoutTheory!Spec => []LockoutTheory!LocksEscalate
  BY LockoutTheory!LockoutEscalates, PwRuleAssumption, SizesAssumption DEF LockoutTheory!LockoutEscalates
<1> QED
  BY <1>2, <1>3, LockoutTheoryApplies, PTL
=============================================================================
