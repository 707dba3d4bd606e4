---------------------------- MODULE DriveProofs ----------------------------
(***************************************************************************)
(* Proofs about a Drive, for any number of items, writes, shares, faults   *)
(* and plans.                                                              *)
(***************************************************************************)
EXTENDS Drive, FiniteSetTheorems, WellFoundedInduction, TLAPS

-----------------------------------------------------------------------------
\* What has never been drawn is nowhere.
Undrawn ==
    /\ Items \subseteq drawn
    /\ \A o \in r2 \cup stray : o[1] \in drawn
    /\ \A p \in Puts : put[p] # None => put[p].id \in drawn

\* Objects of an item are chunks of a file, whoever still writes them.
Shape(x, i) == x \in Items => x \in Files /\ i \in ChunksOf(x)
Shapes ==
    /\ \A o \in r2 \cup stray : Shape(o[1], o[2])
    /\ \A p \in Puts : put[p] # None => Shape(put[p].id, put[p].i)

\* The objects whose write is back in the object, or whose undo is under way.
Answered == {<<put[p].id, put[p].i>> : p \in {q \in Puts : put[q] # None /\ put[q].at # "sent"}}
R2Owned == r2 \subseteq Objects(Items) \cup lost \cup Answered

\* What is neither being removed nor was half removed has in R2 what is recorded.
Chosen(x) == block # None /\ x \in block.ids
Recorded(x) == IF x \in Pending THEN node[x].rows ELSE ChunksOf(x)
RowsStored == \A x \in Files \ torn : ~Chosen(x) => \A i \in Recorded(x) : <<x, i>> \in r2
PutsStored ==
    \A p \in Puts : put[p] # None =>
        /\ put[p].at = "stored" /\ put[p].id \in Items /\ ~Chosen(put[p].id) => <<put[p].id, put[p].i>> \in r2
        /\ put[p].at = "undo" => put[p].id \notin Items

\* A removal holds its items as it chose them, and what is below them.
BlockHolds ==
    block # None =>
        /\ block.ids \subseteq Items
        /\ \A y \in Items : Parent(y) \in block.ids => y \in block.ids
        /\ block.why = "alarm" => block.ids \subseteq Pending
        /\ block.why = "destroy" => block.ids = Items
        /\ block.gone => \A o \in r2 : o[1] \in block.ids => o \in lost \cup Answered

\* The files of a share are finished as long as they are there.
ShareFiles ==
    /\ \A s \in Shares : share[s].st # "no" =>
         share[s].ids # {} /\ \A x \in share[s].ids : x \in drawn /\ (x \in Items => x \in Files \ Pending)
    /\ \A r \in refs : share[r[1]].st # "no" /\ r[2] \in share[r[1]].ids
    /\ \A s \in ending \cup bye.left : share[s].st # "no"

\* Only an account's request that listed shares has some to end, and none while the Drive goes.
ByeLeft ==
    /\ bye.at \in {"no", "destroying", "cut", "done"} => bye.left = {}
    /\ block # None /\ block.why = "destroy" => bye.at \in {"destroying", "cut"}

\* A pending upload's quota was not given back, a finished one's never is.
QuotaHeld ==
    \A x \in Ids :
        /\ (x \in Pending \/ x \notin drawn) => paid[x] = 0 /\ x \notin owed /\ x \notin ended
        /\ paid[x] <= 1
        /\ x \in ended => paid[x] = 0 /\ x \notin owed
        /\ x \in owed => paid[x] = 0

PendingBefore == \A x \in Pending : node[x].at <= now

\* The tree: every item hangs, by folders, from the top folder.
Hangs ==
    /\ IsFiniteSet(drawn)
    /\ \A x \in Items : Parent(x) \in Folders /\ \E y \in Above(x) : Parent(y) = Root
    /\ \A x \in Items : Depth(IF x \in Files THEN Parent(x) ELSE x) <= plan.depth

Store == Undrawn /\ Shapes /\ R2Owned /\ RowsStored /\ PutsStored /\ NoLateWrite /\ BlockHolds
Sharing == ShareFiles /\ SharesWhole /\ RefsNameItems /\ ByeLeft
Lapsing == PendingBefore /\ AlarmCovers
IInv == TypeOK /\ Store /\ Sharing /\ QuotaHeld /\ Lapsing /\ Hangs

-----------------------------------------------------------------------------
(***************************************************************************)
(* Trees.  Above is about the tree there is; Up says the same of any, so   *)
(* that a tree before and after a step can be compared.                    *)
(***************************************************************************)
ClosedIn(n, S) == \A z \in S : n[z] # None => n[z].parent \in S \cup {Root}
Up(n, x) == {y \in Ids : \A S \in SUBSET Ids : x \in S \cup {Root} /\ ClosedIn(n, S) => y \in S}
In(n) == {x \in Ids : n[x] # None}
Placed(n) == \A x \in In(n) : n[x].parent \in Ids \cup {Root}

LEMMA AboveIsUp ==
    /\ \A x : Above(x) = Up(node, x)
    /\ \A x : Above(x)' = Up(node', x)
  BY DEF Above, Up, ClosedIn, Items, Parent

LEMMA UpLeast ==
    ASSUME NEW n, NEW x, NEW S \in SUBSET Ids, x \in S \cup {Root}, ClosedIn(n, S)
    PROVE  Up(n, x) \subseteq S
  BY DEF Up

LEMMA UpOfRoot == ASSUME NEW n PROVE Up(n, Root) = {}
  <1>1. {} \in SUBSET Ids /\ Root \in {} \cup {Root} /\ ClosedIn(n, {})
    BY DEF ClosedIn
  <1> QED
    BY <1>1, UpLeast

LEMMA UpHolds == ASSUME NEW n, NEW x \in Ids PROVE x \in Up(n, x)
  BY NamesAssumption DEF Up

LEMMA UpClosed == ASSUME NEW n, NEW x, Placed(n) PROVE ClosedIn(n, Up(n, x))
  <1> SUFFICES ASSUME NEW z \in Up(n, x), n[z] # None, n[z].parent # Root
               PROVE  n[z].parent \in Up(n, x)
    BY DEF ClosedIn
  <1>1. z \in Ids /\ n[z].parent \in Ids
    BY DEF Up, Placed, In
  <1>2. ASSUME NEW S \in SUBSET Ids, x \in S \cup {Root}, ClosedIn(n, S) PROVE n[z].parent \in S
    <2>1. z \in S
      BY <1>2 DEF Up
    <2> QED
      BY <2>1, <1>2 DEF ClosedIn
  <1> QED
    BY <1>1, <1>2 DEF Up

LEMMA UpWithin == ASSUME NEW n, NEW x, Placed(n), NEW z \in Up(n, x) PROVE Up(n, z) \subseteq Up(n, x)
  <1>1. Up(n, x) \in SUBSET Ids
    BY DEF Up
  <1> QED
    BY <1>1, UpClosed, UpLeast

\* What is above an item is the item and what is above its parent.
LEMMA UpStep ==
    ASSUME NEW n, Placed(n), NEW x \in In(n)
    PROVE  Up(n, x) = {x} \cup Up(n, n[x].parent)
  <1> DEFINE S == {x} \cup Up(n, n[x].parent)
  <1>1. x \in Ids /\ n[x] # None /\ n[x].parent \in Ids \cup {Root}
    BY DEF In, Placed
  <1>2. Up(n, x) \subseteq S
    <2>1. S \in SUBSET Ids
      BY <1>1 DEF Up
    <2>2. ClosedIn(n, S)
      <3>1. n[x].parent \in S \cup {Root}
        BY <1>1, UpHolds
      <3>2. ClosedIn(n, Up(n, n[x].parent))
        BY UpClosed
      <3> QED
        BY <3>1, <3>2 DEF ClosedIn
    <2>3. x \in S \cup {Root}
      OBVIOUS
    <2> HIDE DEF S
    <2> QED
      BY <2>1, <2>2, <2>3, UpLeast
  <1>3. x \in Up(n, x)
    BY <1>1, UpHolds
  <1>4. n[x].parent \in Up(n, x) \cup {Root}
    BY <1>1, <1>3, UpClosed DEF ClosedIn
  <1>5. Up(n, n[x].parent) \subseteq Up(n, x)
    <2>1. CASE n[x].parent = Root
      BY <2>1, UpOfRoot
    <2>2. CASE n[x].parent # Root
      BY <2>2, <1>4, UpWithin
    <2> QED
      BY <2>1, <2>2
  <1> QED
    BY <1>2, <1>3, <1>5

\* A tree that is the same on what is above an item has the same above it.
LEMMA UpSame ==
    ASSUME NEW n, NEW k, NEW x, Placed(n), Placed(k),
           \A y \in Up(n, x) : (k[y] # None <=> n[y] # None) /\ (n[y] # None => k[y].parent = n[y].parent),
           x \in Ids \cup {Root}
    PROVE  Up(k, x) = Up(n, x)
  <1>1. Up(n, x) \in SUBSET Ids /\ Up(k, x) \in SUBSET Ids
    BY DEF Up
  <1>2. ClosedIn(n, Up(n, x)) /\ ClosedIn(k, Up(k, x))
    BY UpClosed
  <1>3. x \in Up(n, x) \cup {Root} /\ x \in Up(k, x) \cup {Root}
    BY UpHolds
  <1>4. ClosedIn(k, Up(n, x))
    BY <1>2 DEF ClosedIn
  <1>5. Up(k, x) \subseteq Up(n, x)
    BY <1>1, <1>3, <1>4, UpLeast
  <1>6. ClosedIn(n, Up(k, x))
    BY <1>2, <1>5 DEF ClosedIn
  <1>7. Up(n, x) \subseteq Up(k, x)
    BY <1>1, <1>3, <1>6, UpLeast
  <1> QED
    BY <1>5, <1>7

\* A tree: what an item is in is a folder, and some item above it is in the top folder.
Tree(n) ==
    \A x \in In(n) : /\ n[x].parent \in {Root} \cup {y \in In(n) : n[y].kind = "dir"}
                     /\ \E y \in Up(n, x) : n[y].parent = Root

LEMMA TreePlaced == ASSUME NEW n, Tree(n) PROVE Placed(n) /\ ClosedIn(n, In(n))
  BY DEF Tree, Placed, In, ClosedIn

LEMMA UpIn == ASSUME NEW n, Tree(n), NEW x \in In(n) \cup {Root} PROVE Up(n, x) \subseteq In(n)
  <1>1. In(n) \in SUBSET Ids
    BY DEF In
  <1> QED
    BY <1>1, TreePlaced, UpLeast

\* No item is above its own parent: the items it would be above of in turn lead nowhere else.
LEMMA NoLoop == ASSUME NEW n, Tree(n), NEW x \in In(n) PROVE x \notin Up(n, n[x].parent)
  <1> SUFFICES ASSUME x \in Up(n, n[x].parent) PROVE FALSE
    OBVIOUS
  <1> DEFINE S == {z \in Up(n, x) : x \in Up(n, z)}
  <1>1. Placed(n) /\ x \in Ids
    BY TreePlaced DEF In
  <1>2. x \in S
    BY <1>1, UpHolds
  <1>3. ASSUME NEW z \in S PROVE n[z] # None /\ n[z].parent \in S
    <2>1. z \in Up(n, x) /\ x \in Up(n, z) /\ z \in In(n)
      BY UpIn
    <2>2. n[z] # None /\ n[z].parent \in Up(n, x) \cup {Root}
      BY <2>1, <1>1, UpClosed DEF ClosedIn, In
    <2>3. x \in Up(n, n[z].parent)
      <3>1. CASE z = x
        BY <3>1
      <3>2. CASE z # x
        BY <2>1, <3>2, <1>1, UpStep
      <3> QED
        BY <3>1, <3>2
    <2>4. n[z].parent # Root
      BY <2>3, UpOfRoot
    <2> QED
      BY <2>2, <2>3, <2>4
  <1>4. S \in SUBSET Ids
    BY DEF Up
  <1>5. ClosedIn(n, S)
    BY <1>3 DEF ClosedIn
  <1>6. Up(n, x) \subseteq S
    <2> HIDE DEF S
    <2> QED
      BY <1>2, <1>4, <1>5, UpLeast
  <1>7. PICK y \in Up(n, x) : n[y].parent = Root
    BY DEF Tree
  <1>8. Root \in S
    BY <1>3, <1>6, <1>7
  <1> QED
    BY <1>4, <1>8, NamesAssumption

\* Nor are two items above each other.
LEMMA NoTwoLoop ==
    ASSUME NEW n, Tree(n), NEW x \in In(n), NEW z \in Up(n, x), x \in Up(n, z)
    PROVE  z = x
  <1> SUFFICES ASSUME z # x PROVE FALSE
    OBVIOUS
  <1>1. Placed(n) /\ z \in In(n)
    BY TreePlaced, UpIn
  <1>2. z \in Up(n, n[x].parent)
    BY <1>1, UpStep
  <1>3. x \in Up(n, n[x].parent)
    BY <1>1, <1>2, UpWithin
  <1> QED
    BY <1>3, NoLoop

-----------------------------------------------------------------------------
(***************************************************************************)
(* Types, and which steps change what.                                     *)
(***************************************************************************)
NodeType == node \in [Ids -> File \cup Folder \cup {None}] /\ drawn \subseteq Ids /\ Items \subseteq drawn
StoreType ==
    /\ r2 \subseteq Objects(Ids) /\ stray \subseteq Objects(Ids) /\ lost \subseteq Objects(Ids)
    /\ put \in [Puts -> Write \cup {None}]
BlockType == block \in Removal \cup {None} /\ torn \subseteq Ids
AlarmType == alarm \in 0 .. MaxTime + PendingSec \cup {None} /\ ring \in BOOLEAN
EndsType == fin \subseteq Ids /\ ended \subseteq Ids
ShareType ==
    /\ refs \subseteq Shares \X Ids
    /\ share \in [Shares -> [st : {"no", "checked", "made", "over", "live", "refused", "ended"}, ids : SUBSET Ids]]
    /\ ending \subseteq Shares /\ loose \subseteq Shares
    /\ bye \in [at : {"no", "listed", "destroying", "cut", "last", "done"}, left : SUBSET Shares]
QuotaType == owed \subseteq Ids /\ paid \in [Ids -> 0 .. 2]
BoundsType == plan \in Plans /\ now \in 0 .. MaxTime /\ faults \in 0 .. MaxFaults

LEMMA TypeParts ==
    /\ TypeOK <=> /\ NodeType /\ StoreType /\ BlockType /\ AlarmType
                  /\ EndsType /\ ShareType /\ QuotaType /\ BoundsType
    /\ TypeOK' <=> /\ NodeType' /\ StoreType' /\ BlockType' /\ AlarmType'
                   /\ EndsType' /\ ShareType' /\ QuotaType' /\ BoundsType'
  BY DEF TypeOK, NodeType, StoreType, BlockType, AlarmType, EndsType, ShareType, QuotaType, BoundsType

LEMMA NodeTouched ==
    ASSUME [Next]_vars
    PROVE  \/ UNCHANGED <<node, drawn>>
           \/ \E x \in Ids, parent \in Ids \cup {Root} : CreateFolder(x, parent) \/ Move(x, parent)
           \/ \E x \in Ids, parent \in Ids \cup {Root}, size \in 0 .. MaxSize : CreateFile(x, parent, size)
           \/ \E p \in Puts : ChunkRecorded(p)
           \/ \E x \in Ids : EndFinalize(x)
           \/ DeleteRows \/ PurgeRows \/ DestroyRows
  BY DEF Next, vars, tree, Clean, SendChunk, ChunkStored, ChunkRefused, ChunkUndone, StartFinalize, StartDelete,
         GiveBack, AlarmRings, AlarmEnds, RemoveObjects, RemoveFails, Restart, StrayLands, ShareChecked, ShareMade,
         ShareTied, ShareRefused, ShareEnds, RefsDropped, EndShare, ByeEnds, ByeListed, ByeDestroys, ByeDone, CutOff, Tick

LEMMA FlightTouched ==
    ASSUME [Next]_vars
    PROVE  \/ UNCHANGED <<r2, put, stray, lost>>
           \/ \E p \in Puts, x \in Ids, i \in 0 .. MaxSize - 1 : SendChunk(p, x, i)
           \/ \E p \in Puts : ChunkStored(p) \/ ChunkRecorded(p) \/ ChunkRefused(p) \/ ChunkUndone(p)
           \/ RemoveObjects \/ RemoveFails \/ Restart
           \/ \E o \in stray : StrayLands(o)
  BY DEF Next, vars, Clean, CreateFolder, CreateFile, Move, StartFinalize, EndFinalize, StartDelete, DeleteRows, PurgeRows,
         DestroyRows, GiveBack, AlarmRings, AlarmEnds, ShareChecked, ShareMade,
         ShareTied, ShareRefused, ShareEnds, RefsDropped, EndShare, ByeEnds, ByeListed, ByeDestroys, ByeDone, CutOff, Tick

LEMMA BlockTouched ==
    ASSUME [Next]_vars
    PROVE  \/ UNCHANGED <<block, torn>>
           \/ \E x \in Ids : StartDelete(x)
           \/ AlarmRings \/ RemoveObjects \/ DeleteRows \/ PurgeRows \/ DestroyRows \/ ByeDestroys
           \/ RemoveFails \/ Restart
  BY DEF Next, vars, Clean, CreateFolder, CreateFile, Move, SendChunk, ChunkStored, ChunkRecorded, ChunkRefused, ChunkUndone,
         StartFinalize, EndFinalize, GiveBack, AlarmEnds, StrayLands, ShareChecked, ShareMade,
         ShareTied, ShareRefused, ShareEnds, RefsDropped, EndShare, ByeEnds, ByeListed, ByeDone, CutOff, Tick

LEMMA AlarmTouched ==
    ASSUME [Next]_vars
    PROVE  \/ UNCHANGED <<alarm, ring>>
           \/ \E x \in Ids, parent \in Ids \cup {Root}, size \in 0 .. MaxSize : CreateFile(x, parent, size)
           \/ \E p \in Puts : ChunkRecorded(p)
           \/ AlarmRings \/ AlarmEnds \/ DestroyRows \/ RemoveFails \/ Restart
  BY DEF Next, vars, Clean, CreateFolder, Move, SendChunk, ChunkStored, ChunkRefused, ChunkUndone,
         StartFinalize, EndFinalize, StartDelete, RemoveObjects, DeleteRows, PurgeRows, GiveBack, StrayLands, ShareChecked,
         ShareMade, ShareTied, ShareRefused, ShareEnds, RefsDropped, EndShare, ByeEnds, ByeListed, ByeDestroys, ByeDone,
         CutOff, Tick

LEMMA EndsTouched ==
    ASSUME [Next]_vars
    PROVE  \/ UNCHANGED <<fin, ended>>
           \/ \E x \in Ids : StartFinalize(x) \/ EndFinalize(x)
           \/ RemoveFails \/ Restart
  BY DEF Next, vars, Clean, CreateFolder, CreateFile, Move, SendChunk, ChunkStored, ChunkRecorded, ChunkRefused, ChunkUndone,
         StartDelete, AlarmRings, AlarmEnds, RemoveObjects, DeleteRows, PurgeRows, DestroyRows, GiveBack, StrayLands,
         ShareChecked, ShareMade, ShareTied, ShareRefused, ShareEnds, RefsDropped, EndShare, ByeEnds, ByeListed, ByeDestroys,
         ByeDone, CutOff, Tick

LEMMA ShareTouched ==
    ASSUME [Next]_vars
    PROVE  \/ UNCHANGED <<refs, share, ending, loose, bye>>
           \/ DeleteRows \/ DestroyRows
           \/ \E s \in Shares, ids \in SUBSET Ids : ShareChecked(s, ids)
           \/ \E s \in Shares : \/ ShareMade(s) \/ ShareTied(s) \/ ShareRefused(s) \/ ShareEnds(s)
                                \/ RefsDropped(s) \/ EndShare(s) \/ ByeEnds(s)
           \/ ByeListed \/ ByeDestroys \/ ByeDone
           \/ CutOff
  BY DEF Next, vars, tree, worker, Clean, CreateFolder, CreateFile, Move, SendChunk, ChunkStored, ChunkRecorded, ChunkRefused,
         ChunkUndone, StartFinalize, EndFinalize, StartDelete, AlarmRings, AlarmEnds, RemoveObjects, PurgeRows, GiveBack,
         RemoveFails, Restart, StrayLands, Tick

LEMMA QuotaTouched ==
    ASSUME [Next]_vars
    PROVE  \/ UNCHANGED <<paid, owed>>
           \/ DeleteRows \/ PurgeRows \/ CutOff
           \/ \E x \in Ids : GiveBack(x)
  BY DEF Next, vars, quota, Clean, CreateFolder, CreateFile, Move, SendChunk, ChunkStored, ChunkRecorded, ChunkRefused,
         ChunkUndone, StartFinalize, EndFinalize, StartDelete, AlarmRings, AlarmEnds, RemoveObjects, DestroyRows,
         RemoveFails, Restart, StrayLands, ShareChecked, ShareMade, ShareTied, ShareRefused, ShareEnds, RefsDropped, EndShare,
         ByeEnds, ByeListed, ByeDestroys, ByeDone, Tick

LEMMA BoundsTouched ==
    ASSUME [Next]_vars
    PROVE  /\ UNCHANGED plan
           /\ UNCHANGED <<now, faults>> \/ RemoveFails \/ Restart \/ CutOff \/ Tick
  BY DEF Next, vars, Clean, CreateFolder, CreateFile, Move, SendChunk, ChunkStored, ChunkRecorded, ChunkRefused,
         ChunkUndone, StartFinalize, EndFinalize, StartDelete, AlarmRings, AlarmEnds, RemoveObjects, DeleteRows, PurgeRows,
         DestroyRows, GiveBack, RemoveFails, Restart, StrayLands, ShareChecked, ShareMade, ShareTied, ShareRefused, ShareEnds,
         RefsDropped, EndShare, ByeEnds, ByeListed, ByeDestroys, ByeDone, CutOff, Tick

-----------------------------------------------------------------------------
LEMMA SmallestOf ==
    ASSUME NEW S \in SUBSET Nat, S # {}
    PROVE  \E x \in S : \A y \in S : x <= y
  <1> DEFINE R == OpToRel(<, Nat)
  <1>1. IsWellFoundedOn(R, Nat)
    BY NatLessThanWellFounded
  <1>2. \A m, n \in Nat : m < n => <<m, n>> \in R
    BY DEF OpToRel
  <1> HIDE DEF R
  <1>3. PICK x \in S : \A y \in S : ~(<<y, x>> \in R)
    BY <1>1, WFMin
  <1>4. \A y \in S : ~(y < x)
    BY <1>2, <1>3
  <1> QED
    BY <1>3, <1>4

Nodes == [Ids -> File \cup Folder \cup {None}]

\* What kind of item there is.
LEMMA Kinds ==
    ASSUME NEW n \in Nodes, NEW x \in Ids, n[x] # None
    PROVE  /\ n[x].parent \in Ids \cup {Root}
           /\ \/ n[x] \in File /\ n[x].kind = "file"
              \/ n[x] \in Folder /\ n[x].kind = "dir"
  BY DEF Nodes, File, Folder

LEMMA FileKinds ==
    ASSUME NodeType
    PROVE  /\ node \in Nodes
           /\ \A x \in Items : x \in Ids /\ node[x] # None /\ Parent(x) \in Ids \cup {Root}
           /\ \A x \in Files : x \in Items /\ node[x] \in File
           /\ \A x \in Items \ Files : node[x] \in Folder
           /\ Files \subseteq Items /\ Pending \subseteq Files /\ Items \subseteq Ids
  <1>1. node \in Nodes
    BY DEF NodeType, Nodes
  <1>2. \A x \in Items : x \in Ids /\ node[x] # None
    BY DEF Items
  <1>3. Files \subseteq Items /\ Pending \subseteq Files /\ Items \subseteq Ids
    BY DEF Items, Files, Pending
  <1> QED
    BY <1>1, <1>2, <1>3, Kinds DEF Files, Parent

LEMMA DueType ==
    ASSUME NEW n \in Nodes
    PROVE  Due(n) \subseteq 0 .. MaxTime + PendingSec
  <1> SUFFICES ASSUME NEW x \in Ids, n[x] # None, n[x].kind = "file"
               PROVE  n[x].at + PendingSec \in 0 .. MaxTime + PendingSec
    BY DEF Due
  <1>1. n[x] \in File
    BY Kinds
  <1>2. n[x].at \in 0 .. MaxTime
    BY <1>1 DEF File
  <1> QED
    BY <1>2, SizesAssumption

\* The alarm set is no later than any upload may lapse.
LEMMA ScheduledFirst ==
    ASSUME NEW n \in Nodes, NEW cur \in 0 .. MaxTime + PendingSec \cup {None}
    PROVE  /\ Scheduled(cur, n) \in 0 .. MaxTime + PendingSec \cup {None}
           /\ \A t \in Due(n) : Scheduled(cur, n) # None /\ Scheduled(cur, n) <= t
  <1>1. CASE Due(n) = {}
    BY <1>1 DEF Scheduled
  <1>2. CASE Due(n) # {}
    <2> DEFINE times == Due(n) \cup (IF cur = None THEN {} ELSE {cur})
    <2>1. times \subseteq 0 .. MaxTime + PendingSec /\ times # {}
      BY <1>2, DueType
    <2>2. times \in SUBSET Nat
      BY <2>1, SizesAssumption
    <2>3. Scheduled(cur, n) = CHOOSE t \in times : \A u \in times : t <= u
      BY <1>2 DEF Scheduled
    <2>4. Due(n) \subseteq times
      OBVIOUS
    <2> HIDE DEF times
    <2>5. Scheduled(cur, n) \in times /\ \A u \in times : Scheduled(cur, n) <= u
      BY <2>1, <2>2, <2>3, SmallestOf
    <2> QED
      BY <2>1, <2>2, <2>4, <2>5, NamesAssumption, SizesAssumption
  <1> QED
    BY <1>1, <1>2

LEMMA NodeTypeStep == ASSUME IInv, [Next]_vars PROVE NodeType'
  <1> USE DEF IInv
  <1>1. NodeType /\ StoreType /\ BoundsType /\ BlockType
    BY TypeParts
  <1>2. node \in Nodes /\ drawn \subseteq Ids /\ Items \subseteq drawn
    BY <1>1, FileKinds DEF NodeType
  <1>3. now \in 0 .. MaxTime
    BY <1>1 DEF BoundsType
  <1> USE DEF Nodes, NodeType, Items
  <1>4. ASSUME UNCHANGED <<node, drawn>> PROVE NodeType'
    BY <1>1, <1>4
  <1>5. ASSUME NEW x \in Ids, NEW parent \in Ids \cup {Root}, CreateFolder(x, parent) PROVE NodeType'
    <2>1. [kind |-> "dir", parent |-> parent] \in Folder
      BY DEF Folder
    <2> QED
      BY <1>2, <1>5, <2>1 DEF CreateFolder
  <1>6. ASSUME NEW x \in Ids, NEW parent \in Ids \cup {Root}, Move(x, parent) PROVE NodeType'
    <2>1. node[x] # None
      BY <1>6 DEF Move
    <2>2. CASE x \in Files
      <3>1. node[x] \in File
        BY <2>2, <1>1, FileKinds
      <3>2. [node[x] EXCEPT !.parent = parent, !.at = now] \in File
        BY <3>1, <1>3 DEF File
      <3>3. node' = [node EXCEPT ![x] = [node[x] EXCEPT !.parent = parent, !.at = now]]
        BY <1>6, <2>2 DEF Move
      <3>4. UNCHANGED drawn
        BY <1>6 DEF Move
      <3> QED
        BY <1>2, <3>2, <3>3, <3>4, <2>1
    <2>3. CASE x \notin Files
      <3>1. node[x] \in Folder
        BY <2>1, <2>3, <1>1, FileKinds
      <3>2. [node[x] EXCEPT !.parent = parent] \in Folder
        BY <3>1 DEF Folder
      <3>3. node' = [node EXCEPT ![x] = [node[x] EXCEPT !.parent = parent]]
        BY <1>6, <2>3 DEF Move
      <3>4. UNCHANGED drawn
        BY <1>6 DEF Move
      <3> QED
        BY <1>2, <3>2, <3>3, <3>4, <2>1
    <2> QED
      BY <2>2, <2>3
  <1>7. ASSUME NEW x \in Ids, NEW parent \in Ids \cup {Root}, NEW size \in 0 .. MaxSize, CreateFile(x, parent, size)
        PROVE  NodeType'
    <2>1. [kind |-> "file", parent |-> parent, size |-> size, state |-> "pending", at |-> now, rows |-> {}] \in File
      BY <1>3 DEF File
    <2>2. UNCHANGED plan /\ drawn' = drawn \cup {x}
          /\ node' = [node EXCEPT ![x] = [kind |-> "file", parent |-> parent, size |-> size,
                                          state |-> "pending", at |-> now, rows |-> {}]]
      BY <1>7 DEF CreateFile
    <2> QED
      BY <1>2, <2>1, <2>2
  <1>8. ASSUME NEW p \in Puts, ChunkRecorded(p) PROVE NodeType'
    <2> DEFINE x == put[p].id
    <2>1. x \in Pending /\ UNCHANGED drawn
          /\ node' = [node EXCEPT ![x].rows = @ \cup {put[p].i}, ![x].at = now]
      BY <1>8 DEF ChunkRecorded
    <2>2. put[p] \in Write
      BY <1>1, <1>8 DEF StoreType, ChunkRecorded
    <2>3. node[x] \in File /\ x \in Ids /\ x \in Items
      BY <1>1, <2>1, FileKinds
    <2>4. [node[x] EXCEPT !.rows = @ \cup {put[p].i}, !.at = now] \in File
      BY <2>2, <2>3, <1>3 DEF File, Write
    <2>5. node' = [node EXCEPT ![x] = [node[x] EXCEPT !.rows = @ \cup {put[p].i}, !.at = now]]
      BY <1>2, <2>1
    <2> HIDE DEF x
    <2> QED
      BY <1>2, <2>1, <2>3, <2>4, <2>5
  <1>9. ASSUME NEW x \in Ids, EndFinalize(x) PROVE NodeType'
    <2>1. CASE Complete(x)
      <3>1. x \in Pending /\ UNCHANGED drawn
            /\ node' = [node EXCEPT ![x].state = "ready", ![x].rows = {}, ![x].at = now]
        BY <1>9, <2>1 DEF EndFinalize, Complete
      <3>2. node[x] \in File /\ x \in Items
        BY <1>1, <3>1, FileKinds
      <3>3. [node[x] EXCEPT !.state = "ready", !.rows = {}, !.at = now] \in File
        BY <3>2, <1>3 DEF File
      <3>4. node' = [node EXCEPT ![x] = [node[x] EXCEPT !.state = "ready", !.rows = {}, !.at = now]]
        BY <1>2, <3>1
      <3> QED
        BY <1>2, <3>1, <3>2, <3>3, <3>4
    <2>2. CASE ~Complete(x)
      BY <1>1, <1>9, <2>2 DEF EndFinalize
    <2> QED
      BY <2>1, <2>2
  <1>10. ASSUME DeleteRows \/ PurgeRows PROVE NodeType'
    BY <1>2, <1>10 DEF DeleteRows, PurgeRows, Without
  <1>11. ASSUME DestroyRows PROVE NodeType'
    BY <1>2, <1>11 DEF DestroyRows
  <1> HIDE DEF Nodes, NodeType, Items, IInv
  <1> QED
    BY NodeTouched, <1>4, <1>5, <1>6, <1>7, <1>8, <1>9, <1>10, <1>11

LEMMA StoreTypeStep == ASSUME IInv, [Next]_vars PROVE StoreType'
  <1>1. NodeType /\ StoreType
    BY TypeParts DEF IInv
  <1> USE DEF StoreType, Objects
  <1>2. \A p \in Puts : put[p] # None => put[p] \in Write
    BY <1>1
  <1>3. \A p \in Puts : put[p] # None => <<put[p].id, put[p].i>> \in Objects(Ids)
    BY <1>2 DEF Write
  <1>4. ASSUME UNCHANGED <<r2, put, stray, lost>> PROVE StoreType'
    BY <1>1, <1>4
  <1>5. ASSUME NEW p \in Puts, NEW x \in Ids, NEW i \in 0 .. MaxSize - 1, SendChunk(p, x, i) PROVE StoreType'
    <2>1. [id |-> x, i |-> i, at |-> "sent"] \in Write
      BY DEF Write
    <2> QED
      BY <1>1, <1>5, <2>1 DEF SendChunk
  <1>6. ASSUME NEW p \in Puts, ChunkStored(p) PROVE StoreType'
    <2>1. put[p] \in Write /\ put' = [put EXCEPT ![p].at = "stored"] /\ UNCHANGED <<stray, lost>>
          /\ r2' = r2 \cup {<<put[p].id, put[p].i>>}
      BY <1>2, <1>6 DEF ChunkStored
    <2>2. [put[p] EXCEPT !.at = "stored"] \in Write
      BY <2>1 DEF Write
    <2>3. put' \in [Puts -> Write \cup {None}]
      BY <1>1, <2>1, <2>2
    <2>4. r2' \subseteq Objects(Ids)
      BY <1>1, <1>3, <2>1, <1>6 DEF ChunkStored
    <2> QED
      BY <1>1, <2>1, <2>3, <2>4
  <1>7. ASSUME NEW p \in Puts, ChunkRecorded(p) PROVE StoreType'
    BY <1>1, <1>7 DEF ChunkRecorded
  <1>8. ASSUME NEW p \in Puts, ChunkRefused(p) PROVE StoreType'
    <2>1. put[p] \in Write /\ UNCHANGED <<r2, stray, lost>>
      BY <1>2, <1>8 DEF ChunkRefused
    <2>2. [put[p] EXCEPT !.at = "undo"] \in Write
      BY <2>1 DEF Write
    <2>3. put' = [put EXCEPT ![p] = None] \/ put' = [put EXCEPT ![p] = [put[p] EXCEPT !.at = "undo"]]
      BY <1>8 DEF ChunkRefused
    <2> QED
      BY <1>1, <2>1, <2>2, <2>3
  <1>9. ASSUME NEW p \in Puts, ChunkUndone(p) PROVE StoreType'
    BY <1>1, <1>9 DEF ChunkUndone
  <1>10. ASSUME RemoveObjects PROVE StoreType'
    BY <1>1, <1>10 DEF RemoveObjects
  <1>11. ASSUME RemoveFails \/ Restart PROVE StoreType'
    BY <1>1, <1>3, <1>11 DEF RemoveFails, Restart, Restarted
  <1>12. ASSUME NEW o \in stray, StrayLands(o) PROVE StoreType'
    BY <1>1, <1>12 DEF StrayLands
  <1> HIDE DEF StoreType
  <1> QED
    BY FlightTouched, <1>4, <1>5, <1>6, <1>7, <1>8, <1>9, <1>10, <1>11, <1>12

LEMMA BlockTypeStep == ASSUME IInv, [Next]_vars PROVE BlockType'
  <1>1. NodeType /\ BlockType
    BY TypeParts DEF IInv
  <1>2. Items \subseteq Ids /\ Pending \subseteq Ids
    BY <1>1, FileKinds
  <1>3. ASSUME NEW w \in {"delete", "alarm", "destroy"}, NEW S \in SUBSET Ids
        PROVE  [why |-> w, ids |-> S, gone |-> FALSE] \in Removal
    BY DEF Removal
  <1>4. ASSUME UNCHANGED <<block, torn>> PROVE BlockType'
    BY <1>1, <1>4 DEF BlockType
  <1>5. ASSUME NEW x \in Ids, StartDelete(x) PROVE BlockType'
    BY <1>1, <1>2, <1>3, <1>5 DEF BlockType, StartDelete, Subtree
  <1>6. ASSUME AlarmRings PROVE BlockType'
    <2>1. Stale \in SUBSET Ids
      BY <1>2 DEF Stale
    <2> QED
      BY <1>1, <1>3, <1>6, <2>1 DEF BlockType, AlarmRings
  <1>7. ASSUME RemoveObjects PROVE BlockType'
    <2>1. block \in Removal /\ block' = [block EXCEPT !.gone = TRUE] /\ UNCHANGED torn
      BY <1>1, <1>7 DEF BlockType, RemoveObjects
    <2>2. block' \in Removal
      BY <2>1 DEF Removal
    <2> QED
      BY <1>1, <2>1, <2>2 DEF BlockType
  <1>8. ASSUME DeleteRows \/ PurgeRows \/ DestroyRows PROVE BlockType'
    BY <1>1, <1>8 DEF BlockType, DeleteRows, PurgeRows, DestroyRows
  <1>9. ASSUME ByeDestroys PROVE BlockType'
    BY <1>1, <1>2, <1>3, <1>9 DEF BlockType, ByeDestroys
  <1>10. ASSUME RemoveFails \/ Restart PROVE BlockType'
    <2>1. block # None => block.ids \subseteq Ids
      BY <1>1 DEF BlockType, Removal
    <2> QED
      BY <1>1, <1>10, <2>1 DEF BlockType, RemoveFails, Restart, Restarted
  <1> QED
    BY BlockTouched, <1>4, <1>5, <1>6, <1>7, <1>8, <1>9, <1>10

LEMMA AlarmTypeStep == ASSUME IInv, [Next]_vars PROVE AlarmType'
  <1>1. NodeType /\ AlarmType /\ BoundsType /\ NodeType'
    BY TypeParts, NodeTypeStep DEF IInv
  <1>2. node \in Nodes /\ node' \in Nodes
    BY <1>1 DEF NodeType, Nodes
  <1>3. alarm \in 0 .. MaxTime + PendingSec \cup {None}
    BY <1>1 DEF AlarmType
  <1>4. Scheduled(alarm, node) \in 0 .. MaxTime + PendingSec \cup {None}
    BY <1>2, <1>3, ScheduledFirst
  <1>5. Scheduled(alarm, node') \in 0 .. MaxTime + PendingSec \cup {None}
    BY <1>2, <1>3, ScheduledFirst
  <1>6. ASSUME UNCHANGED <<alarm, ring>> PROVE AlarmType'
    BY <1>1, <1>6 DEF AlarmType
  <1>7. ASSUME NEW x \in Ids, NEW parent \in Ids \cup {Root}, NEW size \in 0 .. MaxSize, CreateFile(x, parent, size)
        PROVE  AlarmType'
    BY <1>1, <1>5, <1>7 DEF AlarmType, CreateFile
  <1>8. ASSUME NEW p \in Puts, ChunkRecorded(p) PROVE AlarmType'
    BY <1>1, <1>5, <1>8 DEF AlarmType, ChunkRecorded
  <1>9. ASSUME AlarmRings PROVE AlarmType'
    BY <1>1, <1>9 DEF AlarmType, AlarmRings
  <1>10. ASSUME AlarmEnds PROVE AlarmType'
    BY <1>1, <1>4, <1>10 DEF AlarmType, AlarmEnds, Rescheduled
  <1>11. ASSUME DestroyRows PROVE AlarmType'
    BY <1>1, <1>11 DEF AlarmType, DestroyRows
  <1>12. ASSUME RemoveFails \/ Restart PROVE AlarmType'
    <2>1. now \in 0 .. MaxTime + PendingSec
      BY <1>1, SizesAssumption DEF BoundsType
    <2> QED
      BY <1>1, <1>12, <2>1 DEF AlarmType, RemoveFails, Restart, Restarted
  <1> QED
    BY AlarmTouched, <1>6, <1>7, <1>8, <1>9, <1>10, <1>11, <1>12

LEMMA EndsTypeStep == ASSUME IInv, [Next]_vars PROVE EndsType'
  <1>1. EndsType
    BY TypeParts DEF IInv
  <1> QED
    BY <1>1, EndsTouched DEF EndsType, StartFinalize, EndFinalize, RemoveFails, Restart, Restarted

LEMMA ShareTypeStep == ASSUME IInv, [Next]_vars PROVE ShareType'
  <1>1. ShareType
    BY TypeParts DEF IInv
  <1> DEFINE ST == [st : {"no", "checked", "made", "over", "live", "refused", "ended"}, ids : SUBSET Ids]
             Byes == [at : {"no", "listed", "destroying", "cut", "last", "done"}, left : SUBSET Shares]
  <1>2. \A s \in Shares : /\ share[s] \in ST
                          /\ \A t \in {"no", "checked", "made", "over", "live", "refused", "ended"} :
                               [share[s] EXCEPT !.st = t] \in ST
    BY <1>1 DEF ShareType
  <1>3. share \in [Shares -> ST] /\ bye \in Byes
    BY <1>1 DEF ShareType
  <1>4. refs \subseteq Shares \X Ids /\ ending \subseteq Shares /\ loose \subseteq Shares
    BY <1>1 DEF ShareType
  <1>5. \A ids : Referring(ids) \subseteq Shares
    BY DEF Referring
  <1>6. \A S \in SUBSET Shares, t \in {"no", "listed", "destroying", "cut", "last", "done"} : [at |-> t, left |-> S] \in Byes
    OBVIOUS
  <1>7. ShareType' <=> /\ refs' \subseteq Shares \X Ids
                       /\ share' \in [Shares -> ST] /\ ending' \subseteq Shares /\ loose' \subseteq Shares
                       /\ bye' \in Byes
    BY DEF ShareType
  <1>8. \A s \in Shares, t \in {"no", "checked", "made", "over", "live", "refused", "ended"} :
           [share EXCEPT ![s].st = t] \in [Shares -> ST]
    <2> TAKE s \in Shares, t \in {"no", "checked", "made", "over", "live", "refused", "ended"}
    <2> HIDE DEF ST
    <2>1. [share[s] EXCEPT !.st = t] \in ST
      BY <1>2
    <2>2. [share EXCEPT ![s].st = t] = [share EXCEPT ![s] = [share[s] EXCEPT !.st = t]]
      OBVIOUS
    <2> QED
      BY <1>3, <2>1, <2>2
  <1> HIDE DEF ST, Byes
  <1>9. ASSUME UNCHANGED <<refs, share, ending, loose, bye>> PROVE ShareType'
    BY <1>3, <1>4, <1>7, <1>9
  <1>10. ASSUME DeleteRows PROVE ShareType'
    BY <1>3, <1>4, <1>5, <1>7, <1>10 DEF DeleteRows
  <1>11. ASSUME DestroyRows PROVE ShareType'
    BY <1>3, <1>4, <1>5, <1>6, <1>7, <1>11 DEF DestroyRows, Between
  <1>12. ASSUME NEW s \in Shares, NEW ids \in SUBSET Ids, ShareChecked(s, ids) PROVE ShareType'
    <2>1. [st |-> "checked", ids |-> ids] \in ST
      BY DEF ST
    <2> QED
      BY <1>3, <1>4, <1>7, <1>12, <2>1 DEF ShareChecked, worker, tree
  <1>13. ASSUME NEW s \in Shares, ShareMade(s) \/ ShareRefused(s) \/ ShareEnds(s) PROVE ShareType'
    <2>1. UNCHANGED <<refs, ending, loose, bye>>
      BY <1>13 DEF ShareMade, ShareRefused, ShareEnds, tree
    <2>2. PICK t \in {"no", "checked", "made", "over", "live", "refused", "ended"} : share' = [share EXCEPT ![s].st = t]
      BY <1>13 DEF ShareMade, ShareRefused, ShareEnds
    <2>3. share' \in [Shares -> ST]
      BY <1>8, <2>2
    <2> QED
      BY <1>3, <1>4, <1>7, <2>1, <2>3
  <1>14. ASSUME NEW s \in Shares, ShareTied(s) PROVE ShareType'
    <2>1. refs' \subseteq Shares \X Ids
      <3>1. share[s].ids \subseteq Ids
        BY <1>2 DEF ST
      <3> QED
        BY <1>4, <1>14, <3>1 DEF ShareTied
    <2>2. share' \in [Shares -> ST]
      BY <1>3, <1>8, <1>14 DEF ShareTied
    <2> QED
      BY <1>3, <1>4, <1>7, <1>14, <2>1, <2>2 DEF ShareTied
  <1>15. ASSUME NEW s \in Shares, RefsDropped(s) PROVE ShareType'
    BY <1>3, <1>4, <1>7, <1>15 DEF RefsDropped, worker
  <1>16. ASSUME NEW s \in Shares, EndShare(s) PROVE ShareType'
    BY <1>3, <1>4, <1>7, <1>8, <1>16 DEF EndShare, tree
  <1>17. ASSUME NEW s \in Shares, ByeEnds(s) PROVE ShareType'
    <2>1. bye' \in Byes
      BY <1>3, <1>17 DEF ByeEnds, Byes
    <2> QED
      BY <1>3, <1>4, <1>7, <1>8, <1>17, <2>1 DEF ByeEnds, tree
  <1>18. ASSUME ByeListed \/ ByeDestroys \/ ByeDone PROVE ShareType'
    <2>1. bye' \in Byes
      BY <1>3, <1>4, <1>18 DEF ByeListed, ByeDestroys, ByeDone, Byes
    <2> QED
      BY <1>3, <1>4, <1>7, <1>18, <2>1 DEF ByeListed, ByeDestroys, ByeDone, tree
  <1>19. ASSUME CutOff PROVE ShareType'
    <2>1. bye' \in Byes
      BY <1>3, <1>19 DEF CutOff, Byes
    <2>2. bye.left \subseteq Shares
      BY <1>3 DEF Byes
    <2>3. share' \in [Shares -> ST]
      BY <1>2, <1>3, <1>19 DEF CutOff
    <2> QED
      BY <1>3, <1>4, <1>7, <1>19, <2>1, <2>2, <2>3 DEF CutOff, tree
  <1> QED
    BY ShareTouched, <1>9, <1>10, <1>11, <1>12, <1>13, <1>14, <1>15, <1>16, <1>17, <1>18, <1>19

LEMMA QuotaTypeStep == ASSUME IInv, [Next]_vars PROVE QuotaType'
  <1>1. QuotaType /\ NodeType /\ BlockType
    BY TypeParts DEF IInv
  <1>2. paid \in [Ids -> 0 .. 2] /\ owed \subseteq Ids
    BY <1>1 DEF QuotaType
  <1>3. \A x \in Ids : (x \in Pending \/ x \in owed) => paid[x] = 0
    BY DEF IInv, QuotaHeld
  <1>4. ASSUME DeleteRows PROVE QuotaType'
    <2>1. Pending \subseteq Ids
      BY <1>1, FileKinds
    <2> QED
      BY <1>2, <1>4, <2>1 DEF QuotaType, DeleteRows, Unfinished
  <1>5. ASSUME PurgeRows PROVE QuotaType'
    <2>1. block.ids \subseteq Pending
      BY <1>5 DEF IInv, Store, BlockHolds, PurgeRows
    <2> QED
      BY <1>2, <1>3, <1>5, <2>1 DEF QuotaType, PurgeRows
  <1>6. ASSUME CutOff PROVE QuotaType'
    BY <1>2, <1>6 DEF QuotaType, CutOff
  <1>7. ASSUME NEW x \in Ids, GiveBack(x) PROVE QuotaType'
    BY <1>2, <1>3, <1>7 DEF QuotaType, GiveBack
  <1> QED
    BY <1>1, QuotaTouched, <1>4, <1>5, <1>6, <1>7 DEF QuotaType

LEMMA BoundsTypeStep == ASSUME IInv, [Next]_vars PROVE BoundsType'
  <1>1. BoundsType
    BY TypeParts DEF IInv
  <1>2. plan.time \in 0 .. MaxTime /\ plan.faults \in 0 .. MaxFaults
    BY <1>1, PlansAssumption DEF BoundsType, Plan
  <1> QED
    BY <1>1, <1>2, BoundsTouched, SizesAssumption DEF BoundsType, RemoveFails, Restart, CutOff, Tick

LEMMA TypeStep == ASSUME IInv, [Next]_vars PROVE TypeOK'
  BY TypeParts, NodeTypeStep, StoreTypeStep, BlockTypeStep, AlarmTypeStep, EndsTypeStep, ShareTypeStep, QuotaTypeStep,
     BoundsTypeStep

-----------------------------------------------------------------------------
(***************************************************************************)
(* What R2 holds.                                                          *)
(***************************************************************************)
LEMMA WriteType ==
    ASSUME StoreType
    PROVE  \A p \in Puts : put[p] # None =>
             /\ put[p] \in Write /\ put[p].id \in Ids /\ put[p].i \in 0 .. MaxSize - 1
             /\ put[p].at \in {"sent", "stored", "undo"}
             /\ <<put[p].id, put[p].i>> \in Objects(Ids)
  BY DEF StoreType, Write, Objects

LEMMA ObjectType == ASSUME NEW ids \in SUBSET Ids, NEW o \in Objects(ids) PROVE o = <<o[1], o[2]>> /\ o[1] \in ids
  BY DEF Objects

LEMMA Parts ==
    ASSUME IInv
    PROVE  /\ NodeType /\ StoreType /\ BlockType /\ AlarmType /\ EndsType /\ ShareType /\ QuotaType /\ BoundsType
           /\ Undrawn /\ Shapes /\ R2Owned /\ RowsStored /\ PutsStored /\ NoLateWrite /\ BlockHolds
           /\ ShareFiles /\ SharesWhole /\ RefsNameItems /\ ByeLeft /\ QuotaHeld /\ PendingBefore /\ AlarmCovers /\ Hangs
  BY TypeParts DEF IInv, Store, Sharing, Lapsing

LEMMA MovedType ==
    ASSUME NEW f \in File, NEW parent \in Ids \cup {Root}, NEW t \in 0 .. MaxTime
    PROVE  [f EXCEPT !.parent = parent, !.at = t] \in File
  BY DEF File

\* How the items of a step come from those before it: an item is new, or as it was but for where it
\* is, how far its upload got and when it last moved.
Kept(x) ==
    /\ x \in Items /\ (x \in Files <=> x \in Files')
    /\ x \in Files => /\ node'[x].size = node[x].size
                      /\ x \in Pending' => x \in Pending
                      /\ x \in Pending \ Pending' => ~Inflight(x) /\ node[x].rows = ChunksOf(x)

LEMMA ItemsKept ==
    ASSUME IInv, [Next]_vars
    PROVE  /\ drawn \subseteq drawn'
           /\ \A x \in Items' : x \notin drawn \/ Kept(x)
  <1>1. NodeType
    BY Parts
  <1>2. node \in Nodes /\ \A x \in Items : x \in Ids /\ node[x] # None
    BY <1>1, FileKinds
  <1> USE <1>2 DEF Kept, Items, Files, Pending
  <1>3. ASSUME UNCHANGED <<node, drawn>> PROVE drawn \subseteq drawn' /\ \A x \in Items' : Kept(x)
    BY <1>3
  <1>4. ASSUME NEW z \in Ids, NEW parent \in Ids \cup {Root}, CreateFolder(z, parent)
        PROVE  drawn \subseteq drawn' /\ \A x \in Items' : x \notin drawn \/ Kept(x)
    BY <1>4 DEF CreateFolder, MayAdd, Nodes
  <1>5. ASSUME NEW z \in Ids, NEW parent \in Ids \cup {Root}, Move(z, parent)
        PROVE  drawn \subseteq drawn' /\ \A x \in Items' : Kept(x)
    <2>1. node[z] \in File \/ node[z] \in Folder
      BY <1>5, Kinds DEF Move
    <2>2. \/ node[z] \in File /\ node' = [node EXCEPT ![z] = [node[z] EXCEPT !.parent = parent, !.at = now]]
          \/ node[z] \in Folder /\ node' = [node EXCEPT ![z] = [node[z] EXCEPT !.parent = parent]]
      BY <1>5, <2>1 DEF Move, File, Folder
    <2>3. /\ node'[z] # None /\ node'[z].kind = node[z].kind
          /\ node[z].kind = "file" => node'[z].size = node[z].size /\ node'[z].state = node[z].state
      <3>1. CASE node[z] \in File /\ node' = [node EXCEPT ![z] = [node[z] EXCEPT !.parent = parent, !.at = now]]
        <4>1. node'[z] = [node[z] EXCEPT !.parent = parent, !.at = now]
          BY <3>1 DEF Nodes
        <4>2. now \in 0 .. MaxTime
          BY Parts DEF BoundsType
        <4>3. [node[z] EXCEPT !.parent = parent, !.at = now] \in File
          BY <3>1, <4>2, MovedType
        <4>4. node'[z] # None
          BY <4>1, <4>3, NamesAssumption
        <4> QED
          BY <3>1, <4>1, <4>4 DEF File
      <3>2. CASE node[z] \in Folder /\ node' = [node EXCEPT ![z] = [node[z] EXCEPT !.parent = parent]]
        <4>1. node'[z] = [node[z] EXCEPT !.parent = parent]
          BY <3>2 DEF Nodes
        <4>2. node'[z] \in Folder
          BY <3>2, <4>1 DEF Folder
        <4>3. node'[z] # None
          BY <4>2, NamesAssumption
        <4> QED
          BY <3>2, <4>1, <4>3 DEF Folder
      <3> QED
        BY <2>2, <3>1, <3>2
    <2>4. \A x \in Ids \ {z} : node'[x] = node[x]
      BY <2>2 DEF Nodes
    <2> QED
      BY <1>5, <2>3, <2>4 DEF Move
  <1>6. ASSUME NEW z \in Ids, NEW parent \in Ids \cup {Root}, NEW size \in 0 .. MaxSize, CreateFile(z, parent, size)
        PROVE  drawn \subseteq drawn' /\ \A x \in Items' : x \notin drawn \/ Kept(x)
    BY <1>6 DEF CreateFile, MayAdd, Nodes
  <1>7. ASSUME NEW p \in Puts, ChunkRecorded(p) PROVE drawn \subseteq drawn' /\ \A x \in Items' : Kept(x)
    <2> DEFINE z == put[p].id
    <2>1. z \in Pending /\ node[z] \in File
      BY <1>1, <1>7, FileKinds DEF ChunkRecorded
    <2>2. node'[z] = [node[z] EXCEPT !.rows = @ \cup {put[p].i}, !.at = now]
      BY <1>7, <2>1 DEF ChunkRecorded, Nodes
    <2>3. node'[z].kind = node[z].kind /\ node'[z].size = node[z].size /\ node'[z].state = node[z].state
      BY <2>1, <2>2 DEF File
    <2>4. UNCHANGED drawn /\ \A x \in Ids \ {z} : node'[x] = node[x]
      BY <1>7 DEF ChunkRecorded, Nodes
    <2> HIDE DEF z
    <2> QED
      BY <2>1, <2>3, <2>4
  <1>8. ASSUME NEW z \in Ids, EndFinalize(z) PROVE drawn \subseteq drawn' /\ \A x \in Items' : Kept(x)
    <2>1. CASE Complete(z)
      <3>1. z \in Pending /\ node[z] \in File /\ ~Inflight(z) /\ node[z].rows = ChunksOf(z)
        BY <1>1, <2>1, FileKinds DEF Complete
      <3>2. node'[z] = [node[z] EXCEPT !.state = "ready", !.rows = {}, !.at = now]
        BY <1>8, <2>1, <3>1 DEF EndFinalize, Nodes
      <3>3. node'[z].kind = node[z].kind /\ node'[z].size = node[z].size /\ node'[z].state = "ready"
        BY <3>1, <3>2 DEF File
      <3>4. UNCHANGED drawn /\ \A x \in Ids \ {z} : node'[x] = node[x]
        BY <1>8, <2>1 DEF EndFinalize, Nodes
      <3> QED
        BY <3>1, <3>3, <3>4
    <2>2. CASE ~Complete(z)
      BY <1>8, <2>2 DEF EndFinalize
    <2> QED
      BY <2>1, <2>2
  <1>9. ASSUME DeleteRows \/ PurgeRows PROVE drawn \subseteq drawn' /\ \A x \in Items' : Kept(x)
    BY <1>9 DEF DeleteRows, PurgeRows, Without
  <1>10. ASSUME DestroyRows PROVE drawn \subseteq drawn' /\ \A x \in Items' : Kept(x)
    BY <1>10 DEF DestroyRows
  <1> QED
    BY NodeTouched, <1>3, <1>4, <1>5, <1>6, <1>7, <1>8, <1>9, <1>10

\* Where the writes and the objects of a step come from.
LEMMA FlightFrom ==
    ASSUME IInv, [Next]_vars
    PROVE  /\ \A p \in Puts : put'[p] # None =>
                \/ put[p] # None /\ put'[p].id = put[p].id /\ put'[p].i = put[p].i
                \/ put'[p].id \in Pending /\ put'[p].i \in ChunksOf(put'[p].id) /\ UNCHANGED <<node, drawn>>
           /\ \A o \in r2' \cup stray' :
                \/ o \in r2 \cup stray
                \/ \E p \in Puts : put[p] # None /\ o = <<put[p].id, put[p].i>>
  <1>1. StoreType
    BY Parts
  <1>2. put \in [Puts -> Write \cup {None}]
    BY <1>1 DEF StoreType
  <1> DEFINE A == \A p \in Puts : put'[p] # None =>
                    \/ put[p] # None /\ put'[p].id = put[p].id /\ put'[p].i = put[p].i
                    \/ put'[p].id \in Pending /\ put'[p].i \in ChunksOf(put'[p].id) /\ UNCHANGED <<node, drawn>>
             B == \A o \in r2' \cup stray' :
                    \/ o \in r2 \cup stray
                    \/ \E p \in Puts : put[p] # None /\ o = <<put[p].id, put[p].i>>
  <1>3. ASSUME UNCHANGED <<r2, put, stray, lost>> PROVE A /\ B
    BY <1>3
  <1>4. ASSUME NEW p \in Puts, NEW x \in Ids, NEW i \in 0 .. MaxSize - 1, SendChunk(p, x, i) PROVE A /\ B
    BY <1>2, <1>4 DEF SendChunk, tree
  <1>5. ASSUME NEW p \in Puts, ChunkStored(p) PROVE A /\ B
    <2>1. put[p] \in Write
      BY <1>1, <1>5, WriteType DEF ChunkStored
    <2>2. put'[p].id = put[p].id /\ put'[p].i = put[p].i
      BY <1>2, <1>5, <2>1 DEF ChunkStored, Write
    <2> QED
      BY <1>2, <1>5, <2>2 DEF ChunkStored
  <1>6. ASSUME NEW p \in Puts, ChunkRecorded(p) PROVE A /\ B
    BY <1>2, <1>6 DEF ChunkRecorded
  <1>7. ASSUME NEW p \in Puts, ChunkRefused(p) PROVE A /\ B
    <2>1. put[p] \in Write
      BY <1>1, <1>7, WriteType DEF ChunkRefused
    <2>2. put'[p] = None \/ put'[p] = [put[p] EXCEPT !.at = "undo"]
      BY <1>2, <1>7 DEF ChunkRefused
    <2>3. put'[p] = None \/ (put'[p].id = put[p].id /\ put'[p].i = put[p].i)
      BY <2>1, <2>2 DEF Write
    <2> QED
      BY <1>2, <1>7, <2>3 DEF ChunkRefused
  <1>8. ASSUME NEW p \in Puts, ChunkUndone(p) PROVE A /\ B
    BY <1>2, <1>8 DEF ChunkUndone
  <1>9. ASSUME RemoveObjects PROVE A /\ B
    BY <1>9 DEF RemoveObjects
  <1>10. ASSUME RemoveFails \/ Restart PROVE A /\ B
    BY <1>10 DEF RemoveFails, Restart, Restarted
  <1>11. ASSUME NEW o \in stray, StrayLands(o) PROVE A /\ B
    BY <1>11 DEF StrayLands
  <1> HIDE DEF A, B
  <1>12. A /\ B
    BY FlightTouched, <1>3, <1>4, <1>5, <1>6, <1>7, <1>8, <1>9, <1>10, <1>11
  <1> QED
    BY <1>12 DEF A, B

LEMMA UndrawnStep == ASSUME IInv, [Next]_vars PROVE Undrawn'
  <1>1. Undrawn /\ NodeType /\ NodeType'
    BY Parts, NodeTypeStep
  <1>2. Items' \subseteq drawn' /\ Pending \subseteq drawn /\ drawn \subseteq drawn'
    BY <1>1, FileKinds, ItemsKept DEF NodeType
  <1>3. \A p \in Puts : put'[p] # None => put'[p].id \in drawn'
    BY <1>1, <1>2, FlightFrom DEF Undrawn
  <1>4. \A o \in r2' \cup stray' : o[1] \in drawn'
    BY <1>1, <1>2, FlightFrom DEF Undrawn
  <1> QED
    BY <1>2, <1>3, <1>4 DEF Undrawn

LEMMA ShapesStep == ASSUME IInv, [Next]_vars PROVE Shapes'
  <1>1. Undrawn /\ Shapes /\ NodeType
    BY Parts
  <1>2. ASSUME NEW x \in drawn, NEW i, Shape(x, i) PROVE Shape(x, i)'
    BY <1>2, ItemsKept DEF Shape, Kept, ChunksOf
  <1>3. ASSUME NEW p \in Puts, put'[p] # None, NEW x, NEW i, x = put'[p].id, i = put'[p].i PROVE Shape(x, i)'
    <2>1. CASE put[p] # None /\ put'[p].id = put[p].id /\ put'[p].i = put[p].i
      <3>1. x \in drawn /\ Shape(x, i)
        BY <1>1, <1>3, <2>1 DEF Undrawn, Shapes
      <3> QED
        BY <1>2, <3>1
    <2>2. CASE x \in Pending /\ i \in ChunksOf(x) /\ UNCHANGED <<node, drawn>>
      BY <1>1, <2>2, FileKinds DEF Shape, ChunksOf, Items, Files
    <2> QED
      BY <1>3, <2>1, <2>2, FlightFrom
  <1>4. ASSUME NEW o \in r2' \cup stray' PROVE Shape(o[1], o[2])'
    <2>1. o[1] \in drawn /\ Shape(o[1], o[2])
      BY <1>1, FlightFrom DEF Undrawn, Shapes
    <2> QED
      BY <1>2, <2>1 DEF Shape
  <1> QED
    BY <1>3, <1>4 DEF Shapes, Shape

\* What the rows of a removal take away: what it chose.
RowsGone == DeleteRows \/ PurgeRows \/ DestroyRows

LEMMA RowsGoneIs ==
    ASSUME IInv, RowsGone
    PROVE  /\ block # None /\ block.gone /\ block' = None
           /\ Items' = Items \ block.ids
           /\ \A x \in Items' : node'[x] = node[x]
           /\ UNCHANGED <<drawn, r2, put, stray, lost, torn>>
  <1>1. BlockHolds /\ NodeType
    BY Parts
  <1>2. CASE DeleteRows \/ PurgeRows
    BY <1>2 DEF DeleteRows, PurgeRows, Without, Items
  <1>3. CASE DestroyRows
    <2>1. block # None /\ block.ids = Items
      BY <1>1, <1>3 DEF DestroyRows, BlockHolds
    <2>2. Items' = {}
      BY <1>3 DEF DestroyRows, Items
    <2> QED
      BY <1>3, <2>1, <2>2 DEF DestroyRows
  <1> QED
    BY <1>2, <1>3 DEF RowsGone

LEMMA ItemsStay == ASSUME IInv, [Next]_vars PROVE RowsGone \/ Items \subseteq Items'
  <1>1. NodeType /\ StoreType
    BY Parts
  <1>2. node \in Nodes /\ \A x \in Items : x \in Ids /\ node[x] # None
    BY <1>1, FileKinds
  <1>3. now \in 0 .. MaxTime
    BY Parts DEF BoundsType
  <1> USE <1>2
  <1>4. ASSUME NEW z \in Ids, NEW r, r # None, node' = [node EXCEPT ![z] = r] PROVE Items \subseteq Items'
    BY <1>4 DEF Items, Nodes
  <1>5. ASSUME NEW z \in Ids, NEW parent \in Ids \cup {Root}, CreateFolder(z, parent) PROVE Items \subseteq Items'
    <2>1. [kind |-> "dir", parent |-> parent] \in Folder
      BY DEF Folder
    <2> QED
      BY <1>4, <1>5, <2>1, NamesAssumption DEF CreateFolder
  <1>6. ASSUME NEW z \in Ids, NEW parent \in Ids \cup {Root}, NEW size \in 0 .. MaxSize, CreateFile(z, parent, size)
        PROVE  Items \subseteq Items'
    <2>1. [kind |-> "file", parent |-> parent, size |-> size, state |-> "pending", at |-> now, rows |-> {}] \in File
      BY <1>3 DEF File
    <2> QED
      BY <1>4, <1>6, <2>1, NamesAssumption DEF CreateFile
  <1>7. ASSUME NEW z \in Ids, NEW parent \in Ids \cup {Root}, Move(z, parent) PROVE Items \subseteq Items'
    <2>1. CASE z \in Files
      <3>1. node[z] \in File
        BY <1>1, <2>1, FileKinds
      <3>2. [node[z] EXCEPT !.parent = parent, !.at = now] \in File
        BY <3>1, <1>3, MovedType
      <3>3. node' = [node EXCEPT ![z] = [node[z] EXCEPT !.parent = parent, !.at = now]]
        BY <1>7, <2>1 DEF Move
      <3> QED
        BY <3>2, <3>3, <1>4, NamesAssumption
    <2>2. CASE z \notin Files
      <3>1. node[z] \in Folder
        BY <1>1, <1>7, <2>2, FileKinds DEF Move
      <3>2. [node[z] EXCEPT !.parent = parent] \in Folder
        BY <3>1 DEF Folder
      <3>3. node' = [node EXCEPT ![z] = [node[z] EXCEPT !.parent = parent]]
        BY <1>7, <2>2 DEF Move
      <3> QED
        BY <3>2, <3>3, <1>4, NamesAssumption
    <2> QED
      BY <2>1, <2>2
  <1>8. ASSUME NEW p \in Puts, ChunkRecorded(p) PROVE Items \subseteq Items'
    <2>1. put[p].id \in Pending /\ put[p] \in Write
      BY <1>1, <1>8, WriteType DEF ChunkRecorded
    <2>2. node[put[p].id] \in File /\ put[p].id \in Ids
      BY <1>1, <2>1, FileKinds
    <2>3. [node[put[p].id] EXCEPT !.rows = @ \cup {put[p].i}, !.at = now] \in File
      BY <1>3, <2>1, <2>2 DEF File, Write
    <2>4. node' = [node EXCEPT ![put[p].id] = [node[put[p].id] EXCEPT !.rows = @ \cup {put[p].i}, !.at = now]]
      BY <1>8, <2>2 DEF ChunkRecorded, Nodes
    <2> QED
      BY <2>2, <2>3, <2>4, <1>4, NamesAssumption
  <1>9. ASSUME NEW z \in Ids, EndFinalize(z) PROVE Items \subseteq Items'
    <2>1. CASE Complete(z)
      <3>1. node[z] \in File
        BY <1>1, <2>1, FileKinds DEF Complete
      <3>2. [node[z] EXCEPT !.state = "ready", !.rows = {}, !.at = now] \in File
        BY <1>3, <3>1 DEF File
      <3>3. node' = [node EXCEPT ![z] = [node[z] EXCEPT !.state = "ready", !.rows = {}, !.at = now]]
        BY <1>9, <2>1 DEF EndFinalize, Nodes
      <3> QED
        BY <3>2, <3>3, <1>4, NamesAssumption
    <2>2. CASE ~Complete(z)
      BY <1>9, <2>2 DEF EndFinalize, Items
    <2> QED
      BY <2>1, <2>2
  <1>10. ASSUME UNCHANGED <<node, drawn>> PROVE Items \subseteq Items'
    BY <1>10 DEF Items
  <1> QED
    BY NodeTouched, <1>5, <1>6, <1>7, <1>8, <1>9, <1>10 DEF RowsGone

\* While a removal holds the object, the tree and what it chose stay as they are.
LEMMA Frozen ==
    ASSUME IInv, [Next]_vars, block # None
    PROVE  \/ RowsGone \/ RemoveFails \/ Restart
           \/ /\ UNCHANGED <<node, drawn, torn>>
              /\ block' # None /\ block'.ids = block.ids /\ block'.why = block.why
              /\ block' = block \/ (RemoveObjects /\ ~block.gone)
  <1>1. block \in Removal
    BY Parts DEF BlockType
  <1>2. ASSUME ~RowsGone, ~RemoveFails, ~Restart PROVE UNCHANGED <<node, drawn>>
    BY <1>2, NodeTouched DEF RowsGone, CreateFolder, CreateFile, MayAdd, Move, ChunkRecorded, EndFinalize, Free
  <1>3. ASSUME ~RowsGone, ~RemoveFails, ~Restart, ~RemoveObjects PROVE UNCHANGED <<block, torn>>
    BY <1>3, BlockTouched DEF RowsGone, StartDelete, AlarmRings, ByeDestroys, Free
  <1>4. ASSUME RemoveObjects
        PROVE block' # None /\ block'.ids = block.ids /\ block'.why = block.why /\ ~block.gone /\ UNCHANGED torn
    <2>1. block' = [block EXCEPT !.gone = TRUE] /\ ~block.gone /\ UNCHANGED torn
      BY <1>4 DEF RemoveObjects
    <2>2. block' \in Removal
      BY <1>1, <2>1 DEF Removal
    <2>3. block'.ids = block.ids /\ block'.why = block.why
      BY <1>1, <2>1 DEF Removal
    <2> QED
      BY <2>1, <2>2, <2>3, NamesAssumption
  <1> QED
    BY <1>2, <1>3, <1>4

\* What becomes of the objects whose write was answered.
LEMMA AnsweredKept ==
    ASSUME IInv, [Next]_vars, NEW o \in Answered
    PROVE  \/ o \in Answered'
           \/ \E p \in Puts : \/ ChunkRecorded(p) /\ o[1] = put[p].id /\ o[1] \in Pending
                              \/ ChunkRefused(p) /\ o[1] = put[p].id /\ o[1] \in Files
                              \/ ChunkUndone(p) /\ o \notin r2'
           \/ (RemoveFails \/ Restart) /\ o \in lost'
  <1>1. StoreType
    BY Parts
  <1>2. put \in [Puts -> Write \cup {None}]
    BY <1>1 DEF StoreType
  <1>3. PICK q \in Puts : put[q] # None /\ put[q].at # "sent" /\ o = <<put[q].id, put[q].i>>
    BY DEF Answered
  <1>4. ASSUME put'[q] = put[q] PROVE o \in Answered'
    BY <1>3, <1>4 DEF Answered
  <1>5. ASSUME NEW p \in Puts, p # q, SendChunk(p, put[p].id, put[p].i) \/ ChunkStored(p) \/ ChunkRecorded(p)
                                      \/ ChunkRefused(p) \/ ChunkUndone(p)
        PROVE  o \in Answered'
    BY <1>2, <1>4, <1>5 DEF SendChunk, ChunkStored, ChunkRecorded, ChunkRefused, ChunkUndone
  <1>6. ASSUME NEW p \in Puts, NEW x \in Ids, NEW i \in 0 .. MaxSize - 1, SendChunk(p, x, i) PROVE o \in Answered'
    BY <1>2, <1>3, <1>4, <1>6 DEF SendChunk
  <1>7. ASSUME ChunkStored(q) PROVE FALSE
    BY <1>3, <1>7 DEF ChunkStored
  <1>8. ASSUME ChunkRecorded(q) PROVE o[1] = put[q].id /\ o[1] \in Pending
    BY <1>3, <1>8 DEF ChunkRecorded
  <1>9. ASSUME ChunkRefused(q), put[q].id \notin Files PROVE o \in Answered'
    <2>1. put[q] \in Write
      BY <1>1, <1>3, WriteType
    <2>2. put'[q] = [put[q] EXCEPT !.at = "undo"]
      BY <1>2, <1>9 DEF ChunkRefused
    <2>3. put'[q] \in Write /\ put'[q].id = put[q].id /\ put'[q].i = put[q].i /\ put'[q].at = "undo"
      BY <2>1, <2>2 DEF Write
    <2>4. put'[q] # None
      BY <2>3, NamesAssumption
    <2> QED
      BY <1>3, <2>3, <2>4 DEF Answered
  <1>10. ASSUME ChunkUndone(q) PROVE o \notin r2'
    BY <1>3, <1>10 DEF ChunkUndone
  <1>11. ASSUME RemoveObjects \/ (\E s \in stray : StrayLands(s)) \/ UNCHANGED <<r2, put, stray, lost>>
         PROVE  o \in Answered'
    BY <1>4, <1>11 DEF RemoveObjects, StrayLands
  <1>12. ASSUME RemoveFails \/ Restart PROVE o \in lost'
    BY <1>3, <1>12 DEF RemoveFails, Restart, Restarted
  <1>13. o[1] = put[q].id
    BY <1>3
  <1>14. CASE \E p \in Puts : ChunkStored(p) \/ ChunkRecorded(p) \/ ChunkRefused(p) \/ ChunkUndone(p)
    <2> PICK p \in Puts : ChunkStored(p) \/ ChunkRecorded(p) \/ ChunkRefused(p) \/ ChunkUndone(p)
      BY <1>14
    <2>1. CASE p # q
      BY <1>5, <2>1
    <2>2. CASE p = q
      BY <2>2, <1>7, <1>8, <1>9, <1>10, <1>13
    <2> QED
      BY <2>1, <2>2
  <1> QED
    BY FlightTouched, <1>6, <1>11, <1>12, <1>14

\* An object that is new in R2 is of a write just answered, or of one a restarted object made.
LEMMA ObjectsFrom ==
    ASSUME IInv, [Next]_vars, NEW o \in r2' \ r2
    PROVE  o \in Answered' \cup lost'
  <1>1. StoreType
    BY Parts
  <1>2. put \in [Puts -> Write \cup {None}]
    BY <1>1 DEF StoreType
  <1>3. ASSUME NEW p \in Puts, ChunkStored(p) PROVE o \in Answered'
    <2>1. put[p] \in Write
      BY <1>1, <1>3, WriteType DEF ChunkStored
    <2>2. put'[p] = [put[p] EXCEPT !.at = "stored"]
      BY <1>2, <1>3 DEF ChunkStored
    <2>3. put'[p] \in Write /\ put'[p].id = put[p].id /\ put'[p].i = put[p].i /\ put'[p].at = "stored"
      BY <2>1, <2>2 DEF Write
    <2>4. put'[p] # None
      BY <2>3, NamesAssumption
    <2>5. o = <<put[p].id, put[p].i>>
      BY <1>3 DEF ChunkStored
    <2> QED
      BY <2>3, <2>4, <2>5 DEF Answered
  <1>4. ASSUME NEW s \in stray, StrayLands(s) PROVE o \in lost'
    BY <1>4 DEF StrayLands
  <1> QED
    BY FlightTouched, <1>3, <1>4 DEF SendChunk, ChunkRecorded, ChunkRefused, ChunkUndone, RemoveObjects, RemoveFails, Restart

LEMMA LostGrows == ASSUME IInv, [Next]_vars PROVE lost \subseteq lost'
  BY FlightTouched DEF SendChunk, ChunkStored, ChunkRecorded, ChunkRefused, ChunkUndone, RemoveObjects, RemoveFails, Restart,
     Restarted, StrayLands

LEMMA R2OwnedStep == ASSUME IInv, [Next]_vars PROVE R2Owned'
  <1>1. R2Owned /\ BlockHolds /\ NodeType /\ StoreType /\ StoreType'
    BY Parts, StoreTypeStep
  <1> SUFFICES ASSUME NEW o \in r2' PROVE o \in Objects(Items') \cup lost' \cup Answered'
    BY DEF R2Owned
  <1>2. o \in Objects(Ids)
    BY <1>1 DEF StoreType
  <1>3. \A S \in SUBSET Ids : o[1] \in S => o \in Objects(S)
    BY <1>2 DEF Objects
  <1>4. Items' \subseteq Ids
    BY DEF Items
  <1>5. CASE o \notin r2
    BY <1>5, ObjectsFrom
  <1>6. CASE o \in r2 /\ o \in Answered
    <2>1. ASSUME NEW p \in Puts, ChunkRecorded(p) \/ ChunkRefused(p), o[1] \in Files PROVE o \in Objects(Items')
      <3>1. ~RowsGone
        BY <2>1 DEF RowsGone, DeleteRows, PurgeRows, DestroyRows, ChunkRecorded, ChunkRefused, Free
      <3>2. o[1] \in Items'
        BY <1>1, <2>1, <3>1, ItemsStay, FileKinds
      <3> QED
        BY <1>3, <1>4, <3>2
    <2>2. Pending \subseteq Files
      BY <1>1, FileKinds
    <2> QED
      BY <1>6, <2>1, <2>2, AnsweredKept
  <1>7. CASE o \in lost
    BY <1>7, LostGrows
  <1>8. CASE o \in r2 /\ o \notin Answered /\ o \notin lost
    <2>1. o[1] \in Items
      BY <1>1, <1>8, ObjectType, FileKinds DEF R2Owned
    <2>2. o[1] \in Items'
      <3>1. CASE RowsGone
        <4>1. o[1] \notin block.ids
          BY <1>1, <1>8, <3>1, RowsGoneIs DEF BlockHolds
        <4> QED
          BY <2>1, <3>1, <4>1, RowsGoneIs
      <3>2. CASE ~RowsGone
        BY <2>1, <3>2, ItemsStay
      <3> QED
        BY <3>1, <3>2
    <2> QED
      BY <1>3, <1>4, <2>2
  <1> QED
    BY <1>5, <1>6, <1>7, <1>8

LEMMA NoLateWriteStep == ASSUME IInv, [Next]_vars PROVE NoLateWrite'
  <1>1. NoLateWrite /\ Undrawn /\ NodeType
    BY Parts
  <1> SUFFICES ASSUME NEW p \in Puts, put'[p] # None, NEW x, x = put'[p].id, x \in Files', x \notin Pending' PROVE FALSE
    BY DEF NoLateWrite
  <1>2. x \in Items'
    BY DEF Files, Pending
  <1>3. CASE put[p] # None /\ put'[p].id = put[p].id
    <2>1. x \in drawn /\ x \notin Files \ Pending
      BY <1>1, <1>3 DEF NoLateWrite, Undrawn
    <2>2. Kept(x)
      BY <1>2, <2>1, ItemsKept
    <2>3. x \in Pending /\ ~Inflight(x)
      BY <2>1, <2>2 DEF Kept
    <2> QED
      BY <1>3, <2>3 DEF Inflight
  <1>4. CASE x \in Pending /\ UNCHANGED <<node, drawn>>
    BY <1>4 DEF Pending, Files, Items
  <1> QED
    BY <1>3, <1>4, FlightFrom

\* What is recorded of a file after a step was recorded before, or is just being recorded.
LEMMA RecordedFrom ==
    ASSUME IInv, [Next]_vars, NEW x \in Files', NEW i \in Recorded(x)'
    PROVE  x \in Files /\ (i \in Recorded(x) \/ \E p \in Puts : ChunkRecorded(p) /\ put[p].id = x /\ put[p].i = i)
  <1>1. NodeType /\ StoreType
    BY Parts
  <1>2. node \in Nodes /\ now \in 0 .. MaxTime
    BY <1>1, FileKinds, Parts DEF BoundsType
  <1>3. x \in Items' /\ x \in Ids
    BY DEF Files, Items
  <1> USE DEF Recorded, Files, Pending, Items, ChunksOf
  <1>4. ASSUME node'[x] = node[x] PROVE x \in Files /\ i \in Recorded(x)
    BY <1>3, <1>4
  <1>5. ASSUME NEW z \in Ids, NEW parent \in Ids \cup {Root}, CreateFolder(z, parent) PROVE x \in Files /\ i \in Recorded(x)
    <2>1. x # z
      BY <1>2, <1>5 DEF CreateFolder, Nodes
    <2> QED
      BY <1>2, <1>3, <1>4, <1>5, <2>1 DEF CreateFolder, Nodes
  <1>6. ASSUME NEW z \in Ids, NEW parent \in Ids \cup {Root}, NEW size \in 0 .. MaxSize, CreateFile(z, parent, size)
        PROVE  x \in Files /\ i \in Recorded(x)
    <2>1. x # z
      BY <1>2, <1>6 DEF CreateFile, Nodes
    <2> QED
      BY <1>2, <1>3, <1>4, <1>6, <2>1 DEF CreateFile, Nodes
  <1>7. ASSUME NEW z \in Ids, NEW parent \in Ids \cup {Root}, Move(z, parent) PROVE x \in Files /\ i \in Recorded(x)
    <2>1. CASE x = z
      <3>1. Kept(x)
        <4>1. x \in drawn
          BY <1>1, <1>7, <2>1 DEF NodeType, Move
        <4> QED
          BY <4>1, <1>3, ItemsKept
      <3>2. node[x] \in File /\ x \in Files
        BY <1>1, <3>1, FileKinds DEF Kept
      <3>3. node'[x] = [node[x] EXCEPT !.parent = parent, !.at = now]
        BY <1>2, <1>7, <2>1, <3>2 DEF Move, Nodes
      <3>4. node'[x].state = node[x].state /\ node'[x].rows = node[x].rows /\ node'[x].size = node[x].size
        BY <3>2, <3>3 DEF File
      <3> QED
        BY <1>3, <3>2, <3>4
    <2>2. CASE x # z
      BY <1>2, <1>4, <1>7, <1>3, <2>2 DEF Move, Nodes
    <2> QED
      BY <2>1, <2>2
  <1>8. ASSUME NEW p \in Puts, ChunkRecorded(p) PROVE x \in Files /\ (i \in Recorded(x) \/ (put[p].id = x /\ put[p].i = i))
    <2>1. put[p].id \in Pending /\ put[p] \in Write
      BY <1>1, <1>8, WriteType DEF ChunkRecorded
    <2>2. node[put[p].id] \in File /\ put[p].id \in Ids
      BY <1>1, <2>1, FileKinds
    <2>3. node' = [node EXCEPT ![put[p].id] = [node[put[p].id] EXCEPT !.rows = @ \cup {put[p].i}, !.at = now]]
      BY <1>8, <2>2 DEF ChunkRecorded, Nodes
    <2>4. CASE x = put[p].id
      <3>1. node'[x] = [node[x] EXCEPT !.rows = @ \cup {put[p].i}, !.at = now]
        BY <1>2, <2>2, <2>3, <2>4 DEF Nodes
      <3>2. node'[x].state = node[x].state /\ node'[x].rows = node[x].rows \cup {put[p].i}
        BY <2>2, <2>4, <3>1 DEF File
      <3>3. node[x].state = "pending" /\ x \in Files
        BY <2>1, <2>4
      <3> QED
        BY <1>3, <2>1, <2>4, <3>2, <3>3
    <2>5. CASE x # put[p].id
      BY <1>2, <1>3, <1>4, <2>3, <2>5 DEF Nodes
    <2> QED
      BY <2>4, <2>5
  <1>9. ASSUME NEW z \in Ids, EndFinalize(z) PROVE x \in Files /\ i \in Recorded(x)
    <2>1. CASE Complete(z) /\ x = z
      <3>1. node[x] \in File /\ x \in Pending /\ node[x].rows = ChunksOf(x) /\ x \in Files
        BY <1>1, <2>1, FileKinds DEF Complete
      <3>2. node'[x] = [node[x] EXCEPT !.state = "ready", !.rows = {}, !.at = now]
        BY <1>2, <1>9, <2>1, <3>1 DEF EndFinalize, Nodes
      <3>3. node'[x].state = "ready" /\ node'[x].size = node[x].size
        BY <3>1, <3>2 DEF File
      <3> QED
        BY <1>3, <3>1, <3>3
    <2>2. CASE ~Complete(z) \/ x # z
      BY <1>2, <1>3, <1>4, <1>9, <2>2 DEF EndFinalize, Nodes
    <2> QED
      BY <2>1, <2>2
  <1>10. ASSUME RowsGone PROVE x \in Files /\ i \in Recorded(x)
    BY <1>3, <1>4, <1>10, RowsGoneIs
  <1>11. ASSUME UNCHANGED <<node, drawn>> PROVE x \in Files /\ i \in Recorded(x)
    BY <1>4, <1>11
  <1> HIDE DEF Recorded, Files, Pending, Items, ChunksOf
  <1> QED
    BY NodeTouched, <1>5, <1>6, <1>7, <1>8, <1>9, <1>10, <1>11 DEF RowsGone

\* What is in the tree after a step, neither chosen nor half removed, was so before.
LEMMA ChosenKept ==
    ASSUME IInv, [Next]_vars, NEW x \in Items', x \notin torn' \/ ~(RemoveFails \/ Restart), ~Chosen(x)'
    PROVE  (x \notin torn' => x \notin torn) /\ ~Chosen(x)
  <1>1. torn \subseteq torn'
    BY BlockTouched DEF StartDelete, AlarmRings, RemoveObjects, DeleteRows, PurgeRows, DestroyRows, ByeDestroys, RemoveFails,
       Restart, Restarted
  <1>2. ASSUME Chosen(x) PROVE FALSE
    <2>1. CASE RowsGone
      BY <1>2, <2>1, RowsGoneIs DEF Chosen
    <2>2. CASE RemoveFails \/ Restart
      BY <1>2, <2>2 DEF Chosen, RemoveFails, Restart, Restarted
    <2> QED
      BY <1>2, <2>1, <2>2, Frozen DEF Chosen
  <1> QED
    BY <1>1, <1>2

\* An object leaves R2 because its write is undone, or because its item is being removed.
LEMMA ObjectsLeave ==
    ASSUME IInv, [Next]_vars, NEW o \in r2 \ r2', o[1] \in Items, ~Chosen(o[1]),
           o[1] \notin torn' \/ ~(RemoveFails \/ Restart)
    PROVE  FALSE
  <1>1. PutsStored /\ StoreType /\ BlockType
    BY Parts
  <1>2. ASSUME NEW p \in Puts, ChunkUndone(p) PROVE FALSE
    BY <1>1, <1>2 DEF ChunkUndone, PutsStored
  <1>3. ASSUME RemoveObjects PROVE FALSE
    BY <1>1, <1>3 DEF RemoveObjects, Chosen, Objects
  <1>4. ASSUME RemoveFails PROVE FALSE
    BY <1>1, <1>4 DEF RemoveFails, Restarted, Chosen, Objects
  <1> QED
    BY FlightTouched, <1>2, <1>3, <1>4 DEF SendChunk, ChunkStored, ChunkRecorded, ChunkRefused, Restart, StrayLands

LEMMA RowsStoredStep == ASSUME IInv, [Next]_vars PROVE RowsStored'
  <1>1. RowsStored /\ PutsStored /\ NodeType
    BY Parts
  <1> SUFFICES ASSUME NEW x \in Files', x \notin torn', ~Chosen(x)', NEW i \in Recorded(x)' PROVE <<x, i>> \in r2'
    BY DEF RowsStored
  <1>2. x \in Items'
    BY DEF Files
  <1>3. x \notin torn /\ ~Chosen(x)
    BY <1>2, ChosenKept
  <1>4. x \in Files /\ x \in Items
    BY <1>1, RecordedFrom, FileKinds
  <1>5. <<x, i>> \in r2
    <2>1. CASE i \in Recorded(x)
      BY <1>1, <1>3, <1>4, <2>1 DEF RowsStored
    <2>2. CASE \E p \in Puts : ChunkRecorded(p) /\ put[p].id = x /\ put[p].i = i
      BY <1>1, <1>3, <1>4, <2>2 DEF PutsStored, ChunkRecorded
    <2> QED
      BY <2>1, <2>2, RecordedFrom
  <1> QED
    BY <1>2, <1>3, <1>4, <1>5, ObjectsLeave

\* How far a write gets in a step.
LEMMA WriteMoves ==
    ASSUME IInv, [Next]_vars, NEW p \in Puts, put'[p] # None
    PROVE  /\ ~(RemoveFails \/ Restart)
           /\ \/ put'[p] = put[p] /\ put[p] # None
              \/ put'[p].at = "sent"
              \/ /\ ChunkStored(p) /\ put[p] # None /\ put'[p].at = "stored"
                 /\ put'[p].id = put[p].id /\ put'[p].i = put[p].i
              \/ /\ ChunkRefused(p) /\ put[p] # None /\ put'[p].at = "undo" /\ put[p].id \notin Files
                 /\ put'[p].id = put[p].id /\ put'[p].i = put[p].i
  <1>1. StoreType
    BY Parts
  <1>2. put \in [Puts -> Write \cup {None}]
    BY <1>1 DEF StoreType
  <1> DEFINE A == /\ ~(RemoveFails \/ Restart)
                  /\ \/ put'[p] = put[p] /\ put[p] # None
                     \/ put'[p].at = "sent"
                     \/ /\ ChunkStored(p) /\ put[p] # None /\ put'[p].at = "stored"
                        /\ put'[p].id = put[p].id /\ put'[p].i = put[p].i
                     \/ /\ ChunkRefused(p) /\ put[p] # None /\ put'[p].at = "undo" /\ put[p].id \notin Files
                        /\ put'[p].id = put[p].id /\ put'[p].i = put[p].i
  <1>3. ~(RemoveFails \/ Restart)
    BY DEF RemoveFails, Restart, Restarted
  <1>4. ASSUME put'[p] = put[p] PROVE A
    BY <1>3, <1>4
  <1>5. ASSUME NEW q \in Puts, NEW x \in Ids, NEW i \in 0 .. MaxSize - 1, SendChunk(q, x, i) PROVE A
    BY <1>2, <1>3, <1>4, <1>5 DEF SendChunk
  <1>6. ASSUME NEW q \in Puts, ChunkStored(q) PROVE A
    <2>1. CASE q = p
      <3>1. put[p] \in Write
        BY <1>1, <1>6, <2>1, WriteType DEF ChunkStored
      <3>2. put'[p] = [put[p] EXCEPT !.at = "stored"]
        BY <1>2, <1>6, <2>1 DEF ChunkStored
      <3>3. put'[p].at = "stored" /\ put'[p].id = put[p].id /\ put'[p].i = put[p].i
        BY <3>1, <3>2 DEF Write
      <3> QED
        BY <1>3, <1>6, <2>1, <3>3 DEF ChunkStored
    <2>2. CASE q # p
      BY <1>2, <1>4, <1>6, <2>2 DEF ChunkStored
    <2> QED
      BY <2>1, <2>2
  <1>7. ASSUME NEW q \in Puts, ChunkRecorded(q) \/ ChunkUndone(q) PROVE A
    BY <1>2, <1>4, <1>7 DEF ChunkRecorded, ChunkUndone
  <1>8. ASSUME NEW q \in Puts, ChunkRefused(q) PROVE A
    <2>1. CASE q = p
      <3>1. put[p] \in Write
        BY <1>1, <1>8, <2>1, WriteType DEF ChunkRefused
      <3>2. put'[p] = [put[p] EXCEPT !.at = "undo"] /\ put[p].id \notin Files
        BY <1>2, <1>8, <2>1 DEF ChunkRefused
      <3>3. put'[p].at = "undo" /\ put'[p].id = put[p].id /\ put'[p].i = put[p].i
        BY <3>1, <3>2 DEF Write
      <3> QED
        BY <1>3, <1>8, <2>1, <3>2, <3>3 DEF ChunkRefused
    <2>2. CASE q # p
      BY <1>2, <1>4, <1>8, <2>2 DEF ChunkRefused
    <2> QED
      BY <2>1, <2>2
  <1>9. ASSUME RemoveObjects \/ (\E s \in stray : StrayLands(s)) \/ UNCHANGED <<r2, put, stray, lost>> PROVE A
    BY <1>4, <1>9 DEF RemoveObjects, StrayLands
  <1> HIDE DEF A
  <1>10. A
    BY <1>3, FlightTouched, <1>5, <1>6, <1>7, <1>8, <1>9
  <1> QED
    BY <1>10 DEF A

LEMMA PutsStoredStep == ASSUME IInv, [Next]_vars PROVE PutsStored'
  <1>1. PutsStored /\ Undrawn /\ NodeType /\ StoreType /\ Shapes
    BY Parts
  <1> SUFFICES ASSUME NEW p \in Puts, put'[p] # None, NEW x, x = put'[p].id, NEW i, i = put'[p].i
               PROVE  /\ put'[p].at = "stored" /\ x \in Items' /\ ~Chosen(x)' => <<x, i>> \in r2'
                      /\ put'[p].at = "undo" => x \notin Items'
    BY DEF PutsStored, Chosen
  <1>2. ~(RemoveFails \/ Restart)
    BY WriteMoves
  <1>3. CASE put'[p] = put[p] /\ put[p] # None
    <2>1. x \in drawn
      BY <1>1, <1>3 DEF Undrawn
    <2>2. x \in Items' => x \in Items
      BY <2>1, ItemsKept DEF Kept
    <2>3. ASSUME put'[p].at = "stored", x \in Items', ~Chosen(x)' PROVE <<x, i>> \in r2'
      <3>1. ~Chosen(x)
        BY <1>2, <2>3, ChosenKept
      <3>2. <<x, i>> \in r2
        BY <1>1, <1>3, <2>2, <2>3, <3>1 DEF PutsStored
      <3> QED
        BY <1>2, <2>2, <2>3, <3>1, <3>2, ObjectsLeave
    <2>4. put'[p].at = "undo" => x \notin Items'
      BY <1>1, <1>3, <2>2 DEF PutsStored
    <2> QED
      BY <2>3, <2>4
  <1>4. CASE put'[p].at = "sent"
    BY <1>4
  <1>5. CASE ChunkStored(p) /\ put[p] # None /\ put'[p].at = "stored" /\ put'[p].id = put[p].id /\ put'[p].i = put[p].i
    BY <1>5 DEF ChunkStored
  <1>6. CASE /\ ChunkRefused(p) /\ put[p] # None /\ put'[p].at = "undo" /\ put[p].id \notin Files
             /\ put'[p].id = put[p].id /\ put'[p].i = put[p].i
    <2>1. x \notin Items
      BY <1>1, <1>6 DEF Shapes, Shape
    <2>2. x \in drawn
      BY <1>1, <1>6 DEF Undrawn
    <2>3. x \notin Items'
      BY <2>1, <2>2, ItemsKept DEF Kept
    <2> QED
      BY <1>6, <2>3
  <1> QED
    BY <1>3, <1>4, <1>5, <1>6, WriteMoves

\* What is below an item is an item, with all that is below it in turn.
LEMMA SubtreeClosed ==
    ASSUME NodeType, NEW x, NEW y \in Items, Parent(y) \in Subtree(x)
    PROVE  y \in Subtree(x)
  <1>1. Placed(node)
    BY FileKinds DEF Placed, In, Items, Parent
  <1>2. x \in Up(node, Parent(y))
    BY AboveIsUp DEF Subtree
  <1>3. y \in In(node) /\ node[y].parent = Parent(y)
    BY DEF In, Items, Parent
  <1>4. Up(node, y) = {y} \cup Up(node, node[y].parent)
    BY <1>1, <1>3, UpStep
  <1>5. x \in Above(y)
    BY <1>2, <1>3, <1>4, AboveIsUp
  <1> QED
    BY <1>5 DEF Subtree

\* What a removal that starts has chosen.
LEMMA BlockSet ==
    ASSUME IInv, [Next]_vars, block = None, block' # None
    PROVE  /\ UNCHANGED <<node, r2, lost, put>> /\ ~block'.gone
           /\ \/ \E x \in Ids : block'.why = "delete" /\ block'.ids = Subtree(x)
              \/ block'.why = "alarm" /\ block'.ids = Stale
              \/ block'.why = "destroy" /\ block'.ids = Items
  <1>1. ASSUME NEW x \in Ids, StartDelete(x)
        PROVE  /\ UNCHANGED <<node, r2, lost, put>> /\ ~block'.gone /\ block'.why = "delete" /\ block'.ids = Subtree(x)
    BY <1>1 DEF StartDelete, tree
  <1>2. ASSUME AlarmRings
        PROVE  UNCHANGED <<node, r2, lost, put>> /\ ~block'.gone /\ block'.why = "alarm" /\ block'.ids = Stale
    BY <1>2 DEF AlarmRings, tree
  <1>3. ASSUME ByeDestroys
        PROVE  UNCHANGED <<node, r2, lost, put>> /\ ~block'.gone /\ block'.why = "destroy" /\ block'.ids = Items
    BY <1>3 DEF ByeDestroys, tree
  <1>4. ~(RemoveObjects \/ DeleteRows \/ PurgeRows \/ DestroyRows \/ RemoveFails \/ Restart)
    BY DEF RemoveObjects, DeleteRows, PurgeRows, DestroyRows, RemoveFails, Restart, Restarted
  <1> QED
    BY <1>1, <1>2, <1>3, <1>4, BlockTouched

LEMMA BlockHoldsStep == ASSUME IInv, [Next]_vars PROVE BlockHolds'
  <1>1. BlockHolds /\ Hangs /\ NodeType /\ Shapes /\ BlockType
    BY Parts
  <1> SUFFICES ASSUME block' # None PROVE BlockHolds'
    BY DEF BlockHolds
  <1>2. CASE block = None
    <2>1. /\ UNCHANGED node /\ ~block'.gone
          /\ \/ \E x \in Ids : block'.why = "delete" /\ block'.ids = Subtree(x)
             \/ block'.why = "alarm" /\ block'.ids = Stale
             \/ block'.why = "destroy" /\ block'.ids = Items
      BY <1>2, BlockSet
    <2>2. Items' = Items /\ Pending' = Pending /\ \A y : Parent(y)' = Parent(y)
      BY <2>1 DEF Items, Pending, Files, Parent
    <2>3. CASE \E x \in Ids : block'.why = "delete" /\ block'.ids = Subtree(x)
      <3> PICK x \in Ids : block'.why = "delete" /\ block'.ids = Subtree(x)
        BY <2>3
      <3>1. Subtree(x) \subseteq Items /\ \A y \in Items : Parent(y) \in Subtree(x) => y \in Subtree(x)
        BY <1>1, SubtreeClosed DEF Subtree
      <3> QED
        BY <2>1, <2>2, <3>1 DEF BlockHolds
    <2>4. CASE block'.why = "alarm" /\ block'.ids = Stale
      <3>1. Stale \subseteq Pending /\ Pending \subseteq Files /\ Files \subseteq Items
        BY DEF Stale, Pending, Files
      <3>2. \A y \in Items : Parent(y) \notin Files
        <4>1. Files \subseteq Ids
          BY <1>1, FileKinds
        <4> QED
          BY <1>1, <4>1, NamesAssumption DEF Hangs, Folders
      <3> QED
        BY <2>1, <2>2, <2>4, <3>1, <3>2 DEF BlockHolds
    <2>5. CASE block'.why = "destroy" /\ block'.ids = Items
      BY <2>1, <2>2, <2>5 DEF BlockHolds
    <2> QED
      BY <2>1, <2>3, <2>4, <2>5
  <1>3. CASE block # None
    <2>1. ~RowsGone /\ ~RemoveFails /\ ~Restart
      BY RowsGoneIs DEF RemoveFails, Restart, Restarted
    <2>2. /\ UNCHANGED <<node, drawn>>
          /\ block'.ids = block.ids /\ block'.why = block.why
          /\ block' = block \/ (RemoveObjects /\ ~block.gone)
      BY <1>3, <2>1, Frozen
    <2>3. Items' = Items /\ Pending' = Pending /\ \A y : Parent(y)' = Parent(y)
      BY <2>2 DEF Items, Pending, Files, Parent
    <2>4. ASSUME block'.gone, NEW o \in r2', o[1] \in block.ids PROVE o \in lost' \cup Answered'
      <3>1. CASE o \notin r2
        BY <3>1, ObjectsFrom
      <3>2. CASE o \in r2 /\ block.gone
        <4>1. o \in lost \cup Answered
          BY <1>1, <1>3, <2>4, <3>2 DEF BlockHolds
        <4>2. CASE o \in lost
          BY <4>2, LostGrows
        <4>3. CASE o \in Answered
          BY <1>3, <2>1, <4>3, AnsweredKept DEF ChunkRecorded, ChunkRefused, Free
        <4> QED
          BY <4>1, <4>2, <4>3
      <3>3. CASE o \in r2 /\ ~block.gone
        <4>1. RemoveObjects
          BY <2>2, <2>4, <3>3
        <4>2. o[1] \in Items
          BY <1>1, <1>3, <2>4 DEF BlockHolds
        <4>3. o[1] \in Files /\ o[2] \in ChunksOf(o[1])
          BY <1>1, <3>3, <4>2 DEF Shapes, Shape
        <4>4. o \in Objects(Ids)
          BY <3>3, Parts DEF StoreType
        <4>5. o \in Objects(block.ids)
          BY <2>4, <4>4 DEF Objects
        <4> QED
          BY <2>4, <4>1, <4>3, <4>5 DEF RemoveObjects
      <3> QED
        BY <3>1, <3>2, <3>3
    <2> QED
      BY <1>1, <1>3, <2>2, <2>3, <2>4 DEF BlockHolds
  <1> QED
    BY <1>2, <1>3

LEMMA StoreStep == ASSUME IInv, [Next]_vars PROVE Store'
  BY UndrawnStep, ShapesStep, R2OwnedStep, RowsStoredStep, PutsStoredStep, NoLateWriteStep, BlockHoldsStep DEF Store

-----------------------------------------------------------------------------
(***************************************************************************)
(* Shares and the rows that tie them to files.                             *)
(***************************************************************************)
States == {"no", "checked", "made", "over", "live", "refused", "ended"}

LEMMA ShareRecord ==
    ASSUME ShareType
    PROVE  /\ \A s \in Shares : share[s].st \in States /\ share[s].ids \subseteq Ids
           /\ \A s, z \in Shares, t \in States :
                /\ [share EXCEPT ![z].st = t][s].ids = share[s].ids
                /\ [share EXCEPT ![z].st = t][s].st = IF s = z THEN t ELSE share[s].st
           /\ bye.left \subseteq Shares /\ ending \subseteq Shares /\ loose \subseteq Shares
           /\ \A r \in refs : r = <<r[1], r[2]>> /\ r[1] \in Shares /\ r[2] \in Ids
  <1>1. \A s \in Shares : share[s] \in [st : States, ids : SUBSET Ids]
    BY DEF ShareType, States
  <1>2. \A s \in Shares : share[s].st \in States /\ share[s].ids \subseteq Ids
    BY <1>1
  <1>3. DOMAIN share = Shares
    BY DEF ShareType
  <1>4. ASSUME NEW s \in Shares, NEW z \in Shares, NEW t \in States
        PROVE  /\ [share EXCEPT ![z].st = t][s].ids = share[s].ids
               /\ [share EXCEPT ![z].st = t][s].st = IF s = z THEN t ELSE share[s].st
    <2>1. CASE s = z
      <3>1. [share EXCEPT ![z].st = t][s] = [share[s] EXCEPT !.st = t]
        BY <1>3, <2>1
      <3>2. share[s] \in [st : States, ids : SUBSET Ids]
        BY <1>1
      <3> QED
        BY <2>1, <3>1, <3>2
    <2>2. CASE s # z
      BY <1>3, <2>2
    <2> QED
      BY <2>1, <2>2
  <1>5. bye.left \subseteq Shares /\ ending \subseteq Shares /\ loose \subseteq Shares
    BY DEF ShareType
  <1>6. \A r \in refs : r = <<r[1], r[2]>> /\ r[1] \in Shares /\ r[2] \in Ids
    BY DEF ShareType
  <1> QED
    BY <1>2, <1>4, <1>5, <1>6

\* How far a share gets in a step.
LEMMA SharesMove ==
    ASSUME IInv, [Next]_vars, NEW s \in Shares
    PROVE  \/ /\ share[s].st = "no" /\ share'[s].st = "checked" /\ UNCHANGED <<node, drawn, refs, ending, bye>>
              /\ share'[s].ids # {} /\ share'[s].ids \subseteq Files \ Pending
           \/ /\ share'[s].ids = share[s].ids
              /\ \/ share'[s].st = share[s].st
                 \/ share[s].st # "no" /\ share'[s].st \in States \ {"no", "live"}
                 \/ share[s].st = "made" /\ share'[s].st = "live" /\ ShareTied(s) /\ StillThere(share[s].ids)
  <1>1. ShareType /\ ShareFiles
    BY Parts
  <1> USE DEF States
  <1>2. \A z \in Shares : share[z].st \in States /\ share[z].ids \subseteq Ids
    BY <1>1, ShareRecord
  <1> DEFINE A == \/ /\ share[s].st = "no" /\ share'[s].st = "checked" /\ UNCHANGED <<node, drawn, refs, ending, bye>>
                     /\ share'[s].ids # {} /\ share'[s].ids \subseteq Files \ Pending
                  \/ /\ share'[s].ids = share[s].ids
                     /\ \/ share'[s].st = share[s].st
                        \/ share[s].st # "no" /\ share'[s].st \in States \ {"no", "live"}
                        \/ share[s].st = "made" /\ share'[s].st = "live" /\ ShareTied(s) /\ StillThere(share[s].ids)
  <1>3. ASSUME share'[s] = share[s] PROVE A
    BY <1>3
  <1>4. ASSUME NEW z \in Shares, NEW t \in States \ {"no", "live"}, share[z].st # "no",
               share' = [share EXCEPT ![z].st = t]
        PROVE  A
    <2>1. share'[s].ids = share[s].ids /\ share'[s].st = IF s = z THEN t ELSE share[s].st
      BY <1>1, <1>4, ShareRecord
    <2> QED
      BY <1>4, <2>1
  <1>5. ASSUME NEW z \in Shares, NEW ids \in SUBSET Ids, ShareChecked(z, ids) PROVE A
    <2>1. share' = [share EXCEPT ![z] = [st |-> "checked", ids |-> ids]]
      BY <1>5 DEF ShareChecked
    <2>2. CASE z = s
      <3>1. share'[s] = [st |-> "checked", ids |-> ids]
        BY <1>1, <2>1, <2>2 DEF ShareType
      <3> QED
        BY <1>5, <2>2, <3>1 DEF ShareChecked, tree
    <2>3. CASE z # s
      BY <1>1, <1>3, <2>1, <2>3 DEF ShareType
    <2> QED
      BY <2>2, <2>3
  <1>6. ASSUME NEW z \in Shares, ShareMade(z) PROVE A
    BY <1>4, <1>6 DEF ShareMade
  <1>7. ASSUME NEW z \in Shares, ShareTied(z) PROVE A
    <2>1. share[z].st # "no"
      BY <1>7 DEF ShareTied
    <2>2. CASE StillThere(share[z].ids) /\ share[z].st = "made"
      <3>1. share' = [share EXCEPT ![z].st = "live"]
        BY <1>7, <2>2 DEF ShareTied
      <3>2. share'[s].ids = share[s].ids /\ share'[s].st = IF s = z THEN "live" ELSE share[s].st
        BY <1>1, <3>1, ShareRecord
      <3> QED
        BY <1>7, <2>2, <3>2
    <2>3. CASE StillThere(share[z].ids) /\ share[z].st # "made"
      <3>1. share' = [share EXCEPT ![z].st = "ended"]
        BY <1>7, <2>3 DEF ShareTied
      <3> QED
        BY <1>4, <2>1, <3>1
    <2>4. CASE ~StillThere(share[z].ids)
      <3>1. share' = [share EXCEPT ![z].st = "refused"]
        BY <1>7, <2>4 DEF ShareTied
      <3> QED
        BY <1>4, <2>1, <3>1
    <2> QED
      BY <2>2, <2>3, <2>4
  <1>8. ASSUME NEW z \in Shares, ShareRefused(z) PROVE A
    BY <1>4, <1>8 DEF ShareRefused
  <1>9. ASSUME NEW z \in Shares, ShareEnds(z) PROVE A
    <2>1. CASE share[z].st = "live"
      <3>1. share' = [share EXCEPT ![z].st = "ended"]
        BY <1>9, <2>1 DEF ShareEnds
      <3> QED
        BY <1>4, <2>1, <3>1
    <2>2. CASE share[z].st # "live"
      <3>1. share' = [share EXCEPT ![z].st = "over"] /\ share[z].st # "no"
        BY <1>9, <2>2 DEF ShareEnds
      <3> QED
        BY <1>4, <3>1
    <2> QED
      BY <2>1, <2>2
  <1>10. ASSUME NEW z \in Shares, EndShare(z) \/ ByeEnds(z) PROVE A
    <2>1. share[z].st # "no" /\ share' = [share EXCEPT ![z].st = "ended"]
      BY <1>1, <1>10 DEF EndShare, ByeEnds, ShareFiles
    <2> QED
      BY <1>4, <2>1
  <1>11. ASSUME CutOff PROVE A
    <2>1. CASE share[s].st = "checked"
      <3>1. share'[s] = [share[s] EXCEPT !.st = "ended"]
        BY <1>11, <2>1 DEF CutOff
      <3>2. share[s] \in [st : States, ids : SUBSET Ids]
        BY <1>1 DEF ShareType
      <3>3. share'[s].st = "ended" /\ share'[s].ids = share[s].ids
        BY <3>1, <3>2
      <3> QED
        BY <2>1, <3>3
    <2>2. CASE share[s].st # "checked"
      BY <1>3, <1>11, <2>2 DEF CutOff
    <2> QED
      BY <2>1, <2>2
  <1>12. ASSUME UNCHANGED share PROVE A
    BY <1>3, <1>12
  <1>13. ASSUME \/ DeleteRows \/ DestroyRows \/ ByeListed \/ ByeDestroys \/ ByeDone
                \/ \E z \in Shares : RefsDropped(z)
         PROVE  UNCHANGED share
    BY <1>13 DEF DeleteRows, DestroyRows, ByeListed, ByeDestroys, ByeDone, RefsDropped, worker
  <1> HIDE DEF A
  <1>14. A
    BY ShareTouched, <1>5, <1>6, <1>7, <1>8, <1>9, <1>10, <1>11, <1>12, <1>13
  <1> QED
    BY <1>14 DEF A

LEMMA FinishedKept ==
    ASSUME IInv, [Next]_vars, NEW x \in Items', x \in Files \ Pending
    PROVE  x \in Files' \ Pending'
  <1>1. NodeType /\ Undrawn
    BY Parts
  <1>2. x \in drawn
    BY <1>1, FileKinds DEF Undrawn
  <1> QED
    BY <1>2, ItemsKept DEF Kept

\* What becomes of the rows of shares.
LEMMA RefsMove ==
    ASSUME IInv, [Next]_vars
    PROVE  \/ UNCHANGED refs /\ ~DeleteRows /\ ~DestroyRows
           \/ \E s \in Shares : RefsDropped(s) /\ refs' = {r \in refs : r[1] # s} /\ UNCHANGED <<node, drawn, share, ending, bye, loose>>
           \/ \E s \in Shares : /\ ShareTied(s) /\ StillThere(share[s].ids) /\ UNCHANGED <<node, drawn, ending, bye, loose>>
                                /\ refs' = refs \cup {<<s, x>> : x \in share[s].ids} /\ share[s].st \in {"made", "over"}
           \/ DeleteRows /\ refs' = {r \in refs : r[1] \notin Referring(block.ids)}
           \/ DestroyRows /\ refs' = {}
  <1>1. ASSUME NEW s \in Shares, RefsDropped(s)
        PROVE  refs' = {r \in refs : r[1] # s} /\ UNCHANGED <<node, drawn, share, ending, bye, loose>>
    BY <1>1 DEF RefsDropped, worker
  <1>2. ASSUME NEW s \in Shares, ShareTied(s), StillThere(share[s].ids)
        PROVE  /\ refs' = refs \cup {<<s, x>> : x \in share[s].ids} /\ share[s].st \in {"made", "over"}
               /\ UNCHANGED <<node, drawn, ending, bye, loose>>
    BY <1>2 DEF ShareTied
  <1>3. ASSUME NEW s \in Shares, ShareTied(s), ~StillThere(share[s].ids)
        PROVE  UNCHANGED <<node, refs>>
    BY <1>3 DEF ShareTied
  <1>4. ASSUME NEW s \in Shares, ShareTied(s) PROVE block = None
    BY <1>4 DEF ShareTied, Free
  <1>5. ASSUME DeleteRows PROVE refs' = {r \in refs : r[1] \notin Referring(block.ids)}
    BY <1>5 DEF DeleteRows
  <1>6. ASSUME DestroyRows PROVE refs' = {}
    BY <1>6 DEF DestroyRows
  <1>7. ASSUME ~DeleteRows, ~DestroyRows,
               UNCHANGED <<refs, share, ending, loose, bye>>
               \/ (\E s \in Shares, ids \in SUBSET Ids : ShareChecked(s, ids))
               \/ (\E s \in Shares : ShareMade(s) \/ ShareRefused(s) \/ ShareEnds(s) \/ EndShare(s) \/ ByeEnds(s))
               \/ ByeListed \/ ByeDestroys \/ ByeDone \/ CutOff
        PROVE  UNCHANGED refs
    BY <1>7 DEF ShareChecked, ShareMade, ShareRefused, ShareEnds, EndShare, ByeEnds, ByeListed, ByeDestroys, ByeDone,
       CutOff, tree
  <1>8. CASE DeleteRows \/ DestroyRows
    BY <1>5, <1>6, <1>8
  <1>9. CASE ~DeleteRows /\ ~DestroyRows
    <2>1. CASE \E s \in Shares : RefsDropped(s)
      BY <1>1, <2>1
    <2>2. CASE \E s \in Shares : ShareTied(s)
      BY <1>2, <1>3, <1>9, <2>2
    <2> QED
      BY <1>7, <1>9, <2>1, <2>2, ShareTouched
  <1> QED
    BY <1>8, <1>9

LEMMA ShareFilesStep == ASSUME IInv, [Next]_vars PROVE ShareFiles'
  <1>1. ShareFiles /\ ShareType /\ NodeType /\ Undrawn /\ ShareType'
    BY Parts, ShareTypeStep
  <1>2. drawn \subseteq drawn' /\ \A x \in Items' : x \notin drawn \/ (x \in Items /\ (x \in Files \ Pending => x \in Files' \ Pending'))
    BY ItemsKept, FinishedKept DEF Kept
  <1>3. ASSUME NEW s \in Shares, share'[s].st # "no"
        PROVE  share'[s].ids # {} /\ \A x \in share'[s].ids : x \in drawn' /\ (x \in Items' => x \in Files' \ Pending')
    <2>1. CASE /\ UNCHANGED <<node, drawn, refs>>
               /\ share'[s].ids # {} /\ share'[s].ids \subseteq Files \ Pending
      <3>1. Files' = Files /\ Pending' = Pending /\ Files \subseteq drawn
        BY <1>1, <2>1 DEF Files, Pending, Items, Undrawn
      <3> QED
        BY <2>1, <3>1
    <2>2. CASE share'[s].ids = share[s].ids /\ share[s].st # "no"
      <3>1. share[s].ids # {} /\ \A x \in share[s].ids : x \in drawn /\ (x \in Items => x \in Files \ Pending)
        BY <1>1, <2>2 DEF ShareFiles
      <3> QED
        BY <1>2, <2>2, <3>1
    <2> QED
      BY <1>3, <2>1, <2>2, SharesMove
  <1>4. ASSUME NEW s \in Shares, share[s].st # "no" PROVE share'[s].st # "no" /\ share'[s].ids = share[s].ids
    BY <1>4, SharesMove DEF States
  <1>5. ASSUME NEW r \in refs' PROVE share'[r[1]].st # "no" /\ r[2] \in share'[r[1]].ids
    <2>1. CASE r \in refs
      <3>1. r[1] \in Shares /\ share[r[1]].st # "no" /\ r[2] \in share[r[1]].ids
        BY <1>1, <2>1, ShareRecord DEF ShareFiles
      <3> QED
        BY <1>4, <3>1
    <2>2. CASE r \notin refs
      <3> PICK s \in Shares : refs' = refs \cup {<<s, x>> : x \in share[s].ids} /\ share[s].st \in {"made", "over"}
        BY <2>2, RefsMove
      <3>1. r[1] = s /\ r[2] \in share[s].ids
        BY <2>2
      <3> QED
        BY <1>4, <3>1
    <2> QED
      BY <2>1, <2>2
  <1>6. ASSUME NEW s \in ending' \cup bye'.left PROVE share'[s].st # "no"
    <2>1. s \in Shares
      BY <1>1 DEF ShareType
    <2>2. \A ids : \A z \in Referring(ids) : share[z].st # "no"
      BY <1>1 DEF ShareFiles, Referring
    <2>3. \A z \in {r[1] : r \in refs} : share[z].st # "no"
      BY <1>1 DEF ShareFiles
    <2>4. CASE s \in ending \cup bye.left
      BY <1>1, <1>4, <2>1, <2>4 DEF ShareFiles
    <2>5. CASE s \notin ending \cup bye.left
      <3>1. CASE DeleteRows
        BY <2>1, <2>2, <2>5, <3>1, <1>4 DEF DeleteRows
      <3>2. CASE DestroyRows
        BY <2>1, <2>2, <2>5, <3>2, <1>4 DEF DestroyRows, Between
      <3>3. CASE ByeListed
        BY <2>1, <2>3, <2>5, <3>3, <1>4 DEF ByeListed
      <3>4. CASE CutOff
        BY <2>5, <3>4 DEF CutOff
      <3>5. ASSUME \/ UNCHANGED <<refs, share, ending, loose, bye>>
                   \/ \E z \in Shares, ids \in SUBSET Ids : ShareChecked(z, ids)
                   \/ \E z \in Shares : \/ ShareMade(z) \/ ShareTied(z) \/ ShareRefused(z) \/ ShareEnds(z)
                                        \/ RefsDropped(z) \/ EndShare(z)
            PROVE  FALSE
        BY <2>5, <3>5 DEF ShareChecked, ShareMade, ShareTied, ShareRefused, ShareEnds, RefsDropped, EndShare, worker
      <3>6. ASSUME ByeDestroys \/ ByeDone \/ \E z \in Shares : ByeEnds(z) PROVE ending' = ending /\ bye'.left \subseteq bye.left
        <4>1. bye \in [at : {"no", "listed", "destroying", "cut", "last", "done"}, left : SUBSET Shares]
          BY <1>1 DEF ShareType
        <4> QED
          BY <3>6, <4>1 DEF ByeDestroys, ByeDone, ByeEnds
      <3> QED
        BY <2>5, <3>1, <3>2, <3>3, <3>4, <3>5, <3>6, ShareTouched
    <2> QED
      BY <2>4, <2>5
  <1> QED
    BY <1>3, <1>5, <1>6 DEF ShareFiles

LEMMA RefsNameItemsStep == ASSUME IInv, [Next]_vars PROVE RefsNameItems'
  <1>1. RefsNameItems /\ ShareFiles /\ ShareType /\ NodeType /\ BlockHolds
    BY Parts
  <1> SUFFICES ASSUME NEW r \in refs' PROVE r[2] \in Items'
    BY DEF RefsNameItems
  <1>2. CASE r \in refs
    <2>1. r[2] \in Items /\ r[1] \in Shares /\ r = <<r[1], r[2]>>
      BY <1>1, <1>2, ShareRecord DEF RefsNameItems
    <2>2. CASE DeleteRows
      <3>1. r[2] \notin block.ids
        BY <1>2, <2>1, <2>2 DEF DeleteRows, Referring
      <3> QED
        BY <2>1, <2>2, <3>1, RowsGoneIs DEF RowsGone
    <2>3. CASE DestroyRows
      BY <2>3 DEF DestroyRows
    <2>4. CASE PurgeRows
      <3>1. r[2] \in Files \ Pending
        BY <1>1, <1>2, <2>1 DEF ShareFiles
      <3>2. block.ids \subseteq Pending
        BY <1>1, <2>4 DEF BlockHolds, PurgeRows
      <3> QED
        BY <2>1, <2>4, <3>1, <3>2, RowsGoneIs DEF RowsGone
    <2> QED
      BY <2>1, <2>2, <2>3, <2>4, ItemsStay DEF RowsGone
  <1>3. CASE r \notin refs
    <2> PICK s \in Shares : /\ StillThere(share[s].ids) /\ UNCHANGED <<node, drawn>>
                            /\ refs' = refs \cup {<<s, x>> : x \in share[s].ids}
      BY <1>3, RefsMove
    <2>1. r[2] \in share[s].ids
      BY <1>3
    <2>2. Items' = Items
      BY DEF Items
    <2> QED
      BY <2>1, <2>2 DEF StillThere
  <1> QED
    BY <1>2, <1>3

LEMMA ByeLeftStep == ASSUME IInv, [Next]_vars PROVE ByeLeft'
  <1>1. ByeLeft /\ ShareType /\ BlockType
    BY Parts
  <1>2. bye \in [at : {"no", "listed", "destroying", "cut", "last", "done"}, left : SUBSET Shares]
    BY <1>1 DEF ShareType
  <1> DEFINE A == bye'.at \in {"no", "destroying", "cut", "done"} => bye'.left = {}
             B == block' # None /\ block'.why = "destroy" => bye'.at \in {"destroying", "cut"}
  <1>3. ASSUME UNCHANGED bye PROVE A
    BY <1>1, <1>3 DEF ByeLeft
  <1>4. ASSUME block' # None, block'.why = "destroy"
        PROVE  ByeDestroys \/ (block # None /\ block.why = "destroy" /\ ~DestroyRows)
    <2>1. CASE block = None
      <3>1. ASSUME NEW x \in Ids, StartDelete(x) PROVE block'.why = "delete"
        BY <3>1 DEF StartDelete
      <3>2. ASSUME AlarmRings PROVE block'.why = "alarm"
        BY <1>4, <3>2 DEF AlarmRings
      <3>3. ~(RemoveObjects \/ DeleteRows \/ PurgeRows \/ DestroyRows \/ RemoveFails \/ Restart)
        BY <1>4, <2>1 DEF RemoveObjects, DeleteRows, PurgeRows, DestroyRows, RemoveFails, Restart, Restarted
      <3> QED
        BY <1>4, <2>1, <3>1, <3>2, <3>3, BlockTouched
    <2>2. CASE block # None
      BY <1>4, <2>2, Frozen, RowsGoneIs DEF RowsGone, RemoveFails, Restart, Restarted
    <2> QED
      BY <2>1, <2>2
  <1>5. ASSUME UNCHANGED bye, ~ByeDestroys PROVE B
    BY <1>1, <1>4, <1>5 DEF ByeLeft
  <1>6. CASE DeleteRows
    <2>1. UNCHANGED bye /\ ~ByeDestroys
      BY <1>6 DEF DeleteRows, ByeDestroys, Free
    <2> QED
      BY <1>3, <1>5, <2>1 DEF ByeLeft
  <1>7. CASE DestroyRows
    BY <1>7 DEF ByeLeft, DestroyRows
  <1>8. CASE ByeListed
    BY <1>8 DEF ByeLeft, ByeListed, Free
  <1>9. CASE ByeDestroys
    BY <1>1, <1>2, <1>9 DEF ByeLeft, ByeDestroys
  <1>10. ASSUME NEW s \in Shares, ByeEnds(s) PROVE ByeLeft'
    <2>1. bye'.at = bye.at /\ bye.at \in {"listed", "last"}
      BY <1>2, <1>10 DEF ByeEnds
    <2>2. UNCHANGED block
      BY <1>10 DEF ByeEnds
    <2> QED
      BY <1>1, <2>1, <2>2 DEF ByeLeft
  <1>11. CASE ByeDone
    <2>1. bye'.at = "done" /\ bye'.left = {} /\ bye.at = "last"
      BY <1>2, <1>11 DEF ByeDone
    <2>2. UNCHANGED block
      BY <1>11 DEF ByeDone
    <2> QED
      BY <1>1, <2>1, <2>2 DEF ByeLeft
  <1>12. CASE CutOff
    <2>1. bye'.left = {} /\ (bye.at \in {"destroying", "cut"} => bye'.at = "cut")
      BY <1>12 DEF CutOff
    <2>2. UNCHANGED block
      BY <1>12 DEF CutOff
    <2> QED
      BY <1>1, <2>1, <2>2 DEF ByeLeft
  <1>13. CASE \/ UNCHANGED <<refs, share, ending, loose, bye>>
              \/ \E s \in Shares, ids \in SUBSET Ids : ShareChecked(s, ids)
              \/ \E s \in Shares : \/ ShareMade(s) \/ ShareTied(s) \/ ShareRefused(s) \/ ShareEnds(s)
                                   \/ RefsDropped(s) \/ EndShare(s)
    <2>1. UNCHANGED bye
      BY <1>13 DEF ShareChecked, ShareMade, ShareTied, ShareRefused, ShareEnds, RefsDropped, EndShare, worker
    <2>2. CASE ByeDestroys
      BY <1>9, <2>2
    <2> QED
      BY <1>3, <1>5, <2>1, <2>2 DEF ByeLeft
  <1> QED
    BY ShareTouched, <1>6, <1>7, <1>8, <1>9, <1>10, <1>11, <1>12, <1>13

LEMMA SharesWholeStep == ASSUME IInv, [Next]_vars PROVE SharesWhole'
  <1>1. SharesWhole /\ ShareFiles /\ ByeLeft /\ ShareType /\ NodeType /\ BlockHolds
    BY Parts
  <1>2. bye \in [at : {"no", "listed", "destroying", "cut", "last", "done"}, left : SUBSET Shares]
    BY <1>1 DEF ShareType
  <1> SUFFICES ASSUME NEW s \in Shares, s \notin loose', share'[s].st = "live", s \notin ending' \cup bye'.left,
                      NEW x \in share'[s].ids
               PROVE  x \in Files' \ Pending' /\ <<s, x>> \in refs'
    BY DEF SharesWhole
  <1>3. share'[s].ids = share[s].ids
    BY SharesMove
  <1>4. CASE share[s].st # "live"
    <2>1. share[s].st = "made" /\ ShareTied(s) /\ StillThere(share[s].ids)
      BY <1>4, SharesMove
    <2>2. refs' = refs \cup {<<s, y>> : y \in share[s].ids} /\ UNCHANGED node
      BY <2>1 DEF ShareTied
    <2>3. x \in Items
      BY <1>3, <2>1 DEF StillThere
    <2>4. x \in Files \ Pending
      BY <1>1, <1>3, <2>1, <2>3 DEF ShareFiles
    <2>5. Files' = Files /\ Pending' = Pending
      BY <2>2 DEF Files, Pending, Items
    <2> QED
      BY <1>3, <2>2, <2>4, <2>5
  <1>5. CASE share[s].st = "live"
    \* What its request or the account's had to end it still has, or it was cut off.
    <2>1. s \notin loose /\ s \notin ending \cup bye.left
      <3> SUFFICES ASSUME s \in loose \cup ending \cup bye.left PROVE FALSE
        OBVIOUS
      <3>1. CASE DeleteRows
        BY <3>1 DEF DeleteRows
      <3>2. CASE DestroyRows
        <4>1. bye.left = {}
          BY <1>1, <3>2 DEF ByeLeft, DestroyRows
        <4> QED
          BY <3>2, <4>1 DEF DestroyRows
      <3>3. CASE ByeListed
        <4>1. bye.left = {}
          BY <1>1, <3>3 DEF ByeLeft, ByeListed
        <4> QED
          BY <3>3, <4>1 DEF ByeListed
      <3>4. CASE CutOff
        BY <3>4 DEF CutOff
      <3>5. ASSUME NEW z \in Shares, EndShare(z) PROVE FALSE
        <4>1. share'[z].st = "ended"
          BY <1>1, <3>5, ShareRecord DEF EndShare, States
        <4>2. z # s
          BY <4>1
        <4> QED
          BY <3>5, <4>2 DEF EndShare
      <3>6. ASSUME NEW z \in Shares, ByeEnds(z) PROVE FALSE
        <4>1. share'[z].st = "ended"
          BY <1>1, <3>6, ShareRecord DEF ByeEnds, States
        <4>2. z # s
          BY <4>1
        <4>3. bye'.left = bye.left \ {z} /\ UNCHANGED <<loose, ending>>
          BY <1>2, <3>6 DEF ByeEnds
        <4> QED
          BY <4>2, <4>3
      <3>7. ASSUME ByeDestroys \/ ByeDone PROVE FALSE
        BY <1>2, <3>7 DEF ByeDestroys, ByeDone
      <3>8. ASSUME \/ UNCHANGED <<refs, share, ending, loose, bye>>
                   \/ \E z \in Shares, ids \in SUBSET Ids : ShareChecked(z, ids)
                   \/ \E z \in Shares : \/ ShareMade(z) \/ ShareTied(z) \/ ShareRefused(z) \/ ShareEnds(z)
                                        \/ RefsDropped(z)
            PROVE  FALSE
        BY <3>8 DEF ShareChecked, ShareMade, ShareTied, ShareRefused, ShareEnds, RefsDropped, worker
      <3> QED
        BY <3>1, <3>2, <3>3, <3>4, <3>5, <3>6, <3>7, <3>8, ShareTouched
    <2>2. x \in Files \ Pending /\ <<s, x>> \in refs
      BY <1>1, <1>3, <1>5, <2>1 DEF SharesWhole
    <2>3. x \in Items
      BY <1>1, <2>2, FileKinds
    <2>4. x \in Items' /\ <<s, x>> \in refs'
      <3>1. CASE DeleteRows
        <4>1. s \notin Referring(block.ids)
          BY <3>1 DEF DeleteRows
        <4>2. x \notin block.ids
          BY <2>2, <4>1 DEF Referring
        <4> QED
          BY <2>2, <2>3, <3>1, <4>1, <4>2, RowsGoneIs, RefsMove DEF RowsGone, DeleteRows
      <3>2. CASE DestroyRows
        <4>1. s \in Between
          BY <2>2, <2>3, <1>1, FileKinds DEF Between, Referring
        <4> QED
          BY <3>2, <4>1 DEF DestroyRows
      <3>3. CASE PurgeRows
        <4>1. x \notin block.ids
          BY <1>1, <2>2, <3>3 DEF BlockHolds, PurgeRows
        <4>2. UNCHANGED refs
          BY <3>3 DEF PurgeRows
        <4> QED
          BY <2>2, <2>3, <3>3, <4>1, <4>2, RowsGoneIs DEF RowsGone
      <3>4. CASE ~RowsGone
        <4>1. x \in Items'
          BY <2>3, <3>4, ItemsStay
        <4>2. ASSUME NEW z \in Shares, RefsDropped(z) PROVE z # s
          BY <1>5, <4>2 DEF RefsDropped
        <4> QED
          BY <2>2, <3>4, <4>1, <4>2, RefsMove DEF RowsGone
      <3> QED
        BY <3>1, <3>2, <3>3, <3>4 DEF RowsGone
    <2> QED
      BY <2>2, <2>4, FinishedKept
  <1> QED
    BY <1>4, <1>5

LEMMA SharingStep == ASSUME IInv, [Next]_vars PROVE Sharing'
  BY ShareFilesStep, SharesWholeStep, RefsNameItemsStep, ByeLeftStep DEF Sharing

-----------------------------------------------------------------------------
(***************************************************************************)
(* The quota of uploads, and the alarm.                                    *)
(***************************************************************************)
\* What a pending upload after a step was before: itself, or not yet drawn.
LEMMA PendingFrom ==
    ASSUME IInv, [Next]_vars, NEW x \in Pending'
    PROVE  x \notin drawn \/ (x \in Pending /\ x \in Items')
  <1>1. x \in Items' /\ x \in Files'
    BY DEF Pending, Files
  <1> QED
    BY <1>1, ItemsKept DEF Kept

LEMMA QuotaHeldStep == ASSUME IInv, [Next]_vars PROVE QuotaHeld'
  <1>1. QuotaHeld /\ BlockHolds /\ QuotaType /\ NodeType /\ EndsType
    BY Parts
  <1> SUFFICES ASSUME NEW x \in Ids
               PROVE  /\ (x \in Pending' \/ x \notin drawn') => paid'[x] = 0 /\ x \notin owed' /\ x \notin ended'
                      /\ paid'[x] <= 1
                      /\ x \in ended' => paid'[x] = 0 /\ x \notin owed'
                      /\ x \in owed' => paid'[x] = 0
    BY DEF QuotaHeld
  <1>2. /\ (x \in Pending \/ x \notin drawn) => paid[x] = 0 /\ x \notin owed /\ x \notin ended
        /\ paid[x] <= 1
        /\ x \in ended => paid[x] = 0 /\ x \notin owed
        /\ x \in owed => paid[x] = 0
    BY <1>1 DEF QuotaHeld
  <1>3. paid[x] \in 0 .. 2 /\ drawn \subseteq drawn'
    BY <1>1, ItemsKept DEF QuotaType
  <1>4. (x \in Pending' \/ x \notin drawn') => (x \in Pending /\ x \in Items') \/ x \notin drawn
    BY <1>3, PendingFrom
  <1>5. CASE UNCHANGED <<paid, owed, ended>>
    BY <1>2, <1>4, <1>5
  <1>6. CASE DeleteRows
    <2>1. owed' = owed \cup (block.ids \cap Pending) /\ UNCHANGED <<paid, ended>>
      BY <1>6 DEF DeleteRows, Unfinished
    <2>2. x \in block.ids \cap Pending => x \notin Items' /\ x \in drawn
      BY <1>1, <1>6, RowsGoneIs, FileKinds DEF RowsGone, NodeType
    <2> QED
      BY <1>2, <1>4, <2>1, <2>2
  <1>7. CASE PurgeRows
    <2>1. /\ paid'[x] = IF x \in block.ids THEN paid[x] + 1 ELSE paid[x]
          /\ UNCHANGED <<owed, ended>>
      BY <1>7 DEF PurgeRows
    <2>2. x \in block.ids => x \in Pending /\ x \notin Items' /\ x \in drawn
      BY <1>1, <1>7, RowsGoneIs, FileKinds DEF RowsGone, NodeType, BlockHolds, PurgeRows
    <2>3. CASE x \in block.ids
      BY <1>2, <1>4, <2>1, <2>2, <2>3
    <2>4. CASE x \notin block.ids
      BY <1>2, <1>4, <2>1, <2>4
    <2> QED
      BY <2>3, <2>4
  <1>8. CASE CutOff
    BY <1>2, <1>4, <1>8 DEF CutOff
  <1>9. ASSUME NEW z \in Ids, GiveBack(z)
        PROVE  /\ (x \in Pending' \/ x \notin drawn') => paid'[x] = 0 /\ x \notin owed' /\ x \notin ended'
               /\ paid'[x] <= 1
               /\ x \in ended' => paid'[x] = 0 /\ x \notin owed'
               /\ x \in owed' => paid'[x] = 0
    <2>1. z \in owed /\ owed' = owed \ {z} /\ UNCHANGED ended /\ paid' = [paid EXCEPT ![z] = paid[z] + 1]
      BY <1>9 DEF GiveBack
    <2>2. CASE x = z
      <3>1. paid'[x] = paid[x] + 1
        BY <1>1, <2>1, <2>2 DEF QuotaType
      <3> QED
        BY <1>2, <1>4, <2>1, <2>2, <3>1
    <2>3. CASE x # z
      <3>1. paid'[x] = paid[x]
        BY <1>1, <2>1, <2>3 DEF QuotaType
      <3> QED
        BY <1>2, <1>4, <2>1, <2>3, <3>1
    <2> QED
      BY <2>2, <2>3
  <1>10. ASSUME NEW z \in Ids, EndFinalize(z), Complete(z)
         PROVE  /\ (x \in Pending' \/ x \notin drawn') => paid'[x] = 0 /\ x \notin owed' /\ x \notin ended'
                /\ paid'[x] <= 1
                /\ x \in ended' => paid'[x] = 0 /\ x \notin owed'
                /\ x \in owed' => paid'[x] = 0
    <2>1. UNCHANGED <<paid, owed>> /\ ended' = ended \cup {z} /\ z \in Pending
      BY <1>10 DEF EndFinalize, Complete, quota
    <2>2. z \notin Pending'
      <3>1. node[z] \in File
        BY <1>1, <2>1, FileKinds
      <3>2. node'[z] = [node[z] EXCEPT !.state = "ready", !.rows = {}, !.at = now]
        BY <1>1, <1>10, <2>1 DEF EndFinalize, NodeType
      <3>3. node'[z].state = "ready"
        BY <3>1, <3>2 DEF File
      <3> QED
        BY <3>3 DEF Pending
    <2>3. z \in drawn
      BY <1>1, <2>1, FileKinds DEF NodeType
    <2> QED
      BY <1>2, <1>3, <1>4, <2>1, <2>2, <2>3
  <1>11. UNCHANGED ended \/ \E z \in Ids : EndFinalize(z) /\ Complete(z)
    BY EndsTouched DEF StartFinalize, EndFinalize, RemoveFails, Restart
  <1> QED
    BY <1>5, <1>6, <1>7, <1>8, <1>9, <1>10, <1>11, QuotaTouched DEF DeleteRows, PurgeRows, CutOff, GiveBack

\* When an upload after a step last made progress.
LEMMA ProgressFrom ==
    ASSUME IInv, [Next]_vars, NEW x \in Pending'
    PROVE  \/ x \in Pending /\ node'[x].at \in {node[x].at, now}
           \/ node'[x].at = now /\ \E parent \in Ids \cup {Root}, size \in 0 .. MaxSize : CreateFile(x, parent, size)
  <1>1. NodeType /\ StoreType /\ node \in Nodes
    BY Parts, FileKinds
  <1>2. x \in Ids /\ x \in Items' /\ x \in Files'
    BY DEF Pending, Files, Items
  <1> DEFINE A == x \in Pending /\ node'[x].at \in {node[x].at, now}
  <1>3. ASSUME x \in drawn PROVE x \in Pending /\ node[x] \in File
    BY <1>1, <1>3, PendingFrom, FileKinds
  <1>4. ASSUME node'[x] = node[x] PROVE A
    BY <1>2, <1>4 DEF Pending, Files, Items
  <1>5. ASSUME NEW z \in Ids, NEW parent \in Ids \cup {Root}, CreateFolder(z, parent) PROVE A
    <2>1. CASE z = x
      <3>1. node'[x] = [kind |-> "dir", parent |-> parent]
        BY <1>1, <1>5, <2>1 DEF CreateFolder, Nodes
      <3> QED
        BY <1>2, <3>1 DEF Files
    <2>2. CASE z # x
      BY <1>1, <1>2, <1>4, <1>5, <2>2 DEF CreateFolder, Nodes
    <2> QED
      BY <2>1, <2>2
  <1>6. ASSUME NEW z \in Ids, NEW parent \in Ids \cup {Root}, NEW size \in 0 .. MaxSize, CreateFile(z, parent, size)
        PROVE  A \/ (z = x /\ node'[x].at = now)
    <2>1. CASE z = x
      BY <1>1, <1>6, <2>1 DEF CreateFile, Nodes
    <2>2. CASE z # x
      BY <1>1, <1>2, <1>4, <1>6, <2>2 DEF CreateFile, Nodes
    <2> QED
      BY <2>1, <2>2
  <1>7. ASSUME NEW z \in Ids, NEW parent \in Ids \cup {Root}, Move(z, parent) PROVE A
    <2>1. CASE z = x
      <3>1. x \in Pending /\ node[x] \in File /\ x \in Files
        BY <1>1, <1>3, <1>7, <2>1, FileKinds DEF Move, NodeType
      <3>2. node'[x] = [node[x] EXCEPT !.parent = parent, !.at = now]
        BY <1>1, <1>7, <2>1, <3>1 DEF Move, Nodes
      <3>3. node'[x].at = now
        BY <3>1, <3>2 DEF File
      <3> QED
        BY <3>1, <3>3
    <2>2. CASE z # x
      BY <1>1, <1>2, <1>4, <1>7, <2>2 DEF Move, Nodes
    <2> QED
      BY <2>1, <2>2
  <1>8. ASSUME NEW p \in Puts, ChunkRecorded(p) PROVE A
    <2>1. put[p].id \in Pending /\ node[put[p].id] \in File /\ put[p].id \in drawn
      BY <1>1, <1>8, FileKinds DEF ChunkRecorded, NodeType
    <2>2. CASE x = put[p].id
      <3>1. node'[x] = [node[x] EXCEPT !.rows = @ \cup {put[p].i}, !.at = now]
        BY <1>1, <1>2, <1>8, <2>2 DEF ChunkRecorded, Nodes
      <3>2. node'[x].at = now
        BY <2>1, <2>2, <3>1 DEF File
      <3> QED
        BY <2>1, <2>2, <3>2
    <2>3. CASE x # put[p].id
      BY <1>1, <1>2, <1>4, <1>8, <2>3 DEF ChunkRecorded, Nodes
    <2> QED
      BY <2>2, <2>3
  <1>9. ASSUME NEW z \in Ids, EndFinalize(z) PROVE A
    <2>1. CASE Complete(z) /\ x = z
      <3>1. node[x] \in File /\ x \in Pending
        BY <1>1, <2>1, FileKinds DEF Complete
      <3>2. node'[x] = [node[x] EXCEPT !.state = "ready", !.rows = {}, !.at = now]
        BY <1>1, <1>9, <2>1, <3>1 DEF EndFinalize, Nodes, Complete
      <3>3. node'[x].at = now
        BY <3>1, <3>2 DEF File
      <3> QED
        BY <3>1, <3>3
    <2>2. CASE ~Complete(z) \/ x # z
      BY <1>1, <1>2, <1>4, <1>9, <2>2 DEF EndFinalize, Nodes
    <2> QED
      BY <2>1, <2>2
  <1>10. ASSUME RowsGone PROVE A
    BY <1>2, <1>4, <1>10, RowsGoneIs
  <1>11. ASSUME UNCHANGED <<node, drawn>> PROVE A
    BY <1>4, <1>11
  <1> HIDE DEF A
  <1>12. A \/ (node'[x].at = now /\ \E parent \in Ids \cup {Root}, size \in 0 .. MaxSize : CreateFile(x, parent, size))
    BY NodeTouched, <1>5, <1>6, <1>7, <1>8, <1>9, <1>10, <1>11 DEF RowsGone
  <1> QED
    BY <1>12 DEF A

LEMMA PendingBeforeStep == ASSUME IInv, [Next]_vars PROVE PendingBefore'
  <1>1. PendingBefore /\ NodeType /\ BoundsType
    BY Parts
  <1> SUFFICES ASSUME NEW x \in Pending' PROVE node'[x].at <= now'
    BY DEF PendingBefore
  <1>2. now \in Nat /\ now <= now' /\ now' \in Nat
    BY <1>1, BoundsTouched, SizesAssumption DEF BoundsType, RemoveFails, Restart, CutOff, Tick
  <1>3. CASE x \in Pending /\ node'[x].at \in {node[x].at, now}
    <2>1. node[x].at \in Nat
      BY <1>1, <1>3, FileKinds, SizesAssumption DEF File
    <2>2. node[x].at <= now
      BY <1>1, <1>3 DEF PendingBefore
    <2> QED
      BY <1>2, <1>3, <2>1, <2>2
  <1>4. CASE node'[x].at = now
    BY <1>2, <1>4
  <1> QED
    BY <1>3, <1>4, ProgressFrom

LEMMA DueIs == (\A t : t \in Due(node) <=> \E x \in Pending : t = node[x].at + PendingSec)
               /\ (\A t : t \in Due(node)' <=> \E x \in Pending' : t = node'[x].at + PendingSec)
  BY DEF Due, Pending, Files, Items

LEMMA AlarmCoversStep == ASSUME IInv, [Next]_vars PROVE AlarmCovers'
  <1>1. AlarmCovers /\ PendingBefore /\ NodeType /\ BoundsType /\ AlarmType /\ NodeType'
    BY Parts, NodeTypeStep
  <1>2. node \in Nodes /\ node' \in Nodes
    BY <1>1, FileKinds DEF NodeType, Nodes
  <1>3. alarm \in 0 .. MaxTime + PendingSec \cup {None} /\ None \notin 0 .. MaxTime + PendingSec
    BY <1>1, NamesAssumption, SizesAssumption DEF AlarmType
  <1>4. now \in Nat /\ now <= now' /\ now' \in Nat
    BY <1>1, BoundsTouched, SizesAssumption DEF BoundsType, RemoveFails, Restart, CutOff, Tick
  <1> SUFFICES ASSUME NEW t \in Due(node)', ~ring' PROVE alarm' # None /\ (alarm' <= t \/ alarm' <= now')
    BY DEF AlarmCovers, Due
  <1>5. CASE alarm' = Scheduled(alarm, node')
    <2>1. t \in Due(node')
      BY DEF Due
    <2>2. Scheduled(alarm, node') # None /\ Scheduled(alarm, node') <= t
      BY <1>2, <1>3, <2>1, ScheduledFirst
    <2> QED
      BY <1>5, <2>2
  <1>6. PICK x \in Pending' : t = node'[x].at + PendingSec
    BY DueIs
  <1>7. ASSUME NEW parent \in Ids \cup {Root}, NEW size \in 0 .. MaxSize, CreateFile(x, parent, size)
        PROVE  alarm' = Scheduled(alarm, node')
    BY <1>7 DEF CreateFile
  <1>8. CASE x \in Pending /\ node'[x].at \in {node[x].at, now}
    <2> DEFINE u == node[x].at + PendingSec
    <2>1. u \in Due(node) /\ node[x].at \in Nat /\ node[x].at <= now
      BY <1>1, <1>8, DueIs, FileKinds, SizesAssumption DEF File, PendingBefore
    <2>2. u <= t /\ u \in Nat /\ t \in Nat
      BY <1>4, <1>6, <1>8, <2>1, SizesAssumption
    <2>3. ring \/ (alarm # None /\ (alarm <= u \/ alarm <= now))
      BY <1>1, <2>1 DEF AlarmCovers
    <2> HIDE DEF u
    <2>4. CASE UNCHANGED <<alarm, ring>>
      <3>1. alarm \in Nat
        BY <1>3, <2>3, <2>4, SizesAssumption
      <3> QED
        BY <1>4, <2>2, <2>3, <2>4, <3>1
    <2>5. CASE AlarmEnds
      <3>1. alarm' = Scheduled(alarm, node) /\ UNCHANGED node
        BY <2>5 DEF AlarmEnds, Rescheduled, tree
      <3> QED
        BY <1>5, <3>1
    <2>6. CASE RemoveFails \/ Restart
      <3>1. alarm' = (IF ring THEN now ELSE alarm)
        BY <2>6 DEF RemoveFails, Restart, Restarted
      <3>2. CASE ring
        BY <1>3, <1>4, <3>1, <3>2, NamesAssumption
      <3>3. CASE ~ring
        <4>1. alarm \in Nat
          BY <1>3, <2>3, <3>3, SizesAssumption
        <4> QED
          BY <1>4, <2>2, <2>3, <3>1, <3>3, <4>1
      <3> QED
        BY <3>2, <3>3
    <2>7. CASE DestroyRows
      <3>1. Items' = {}
        BY <2>7 DEF DestroyRows, Items
      <3> QED
        BY <3>1 DEF Pending, Files
    <2>8. ~AlarmRings
      BY DEF AlarmRings
    <2>9. ASSUME NEW z \in Ids, NEW parent \in Ids \cup {Root}, NEW size \in 0 .. MaxSize, CreateFile(z, parent, size)
          PROVE  alarm' = Scheduled(alarm, node')
      BY <2>9 DEF CreateFile
    <2>10. ASSUME NEW p \in Puts, ChunkRecorded(p) PROVE alarm' = Scheduled(alarm, node')
      BY <2>10 DEF ChunkRecorded
    <2> QED
      BY <1>5, <2>4, <2>5, <2>6, <2>7, <2>8, <2>9, <2>10, AlarmTouched
  <1> QED
    BY <1>5, <1>7, <1>8, ProgressFrom

LEMMA LapsingStep == ASSUME IInv, [Next]_vars PROVE Lapsing'
  BY PendingBeforeStep, AlarmCoversStep DEF Lapsing

-----------------------------------------------------------------------------
(***************************************************************************)
(* How a tree grows, loses what hangs from an item, and has one moved.     *)
(***************************************************************************)
IsFile(n, x) == n[x].kind = "file"
Whole(n) == n \in Nodes /\ Tree(n) /\ IsFiniteSet(In(n))

\* How deep folders go: a file counts as what it is in.
Bounded(n, d) == \A x \in In(n) : Cardinality(Up(n, IF IsFile(n, x) THEN n[x].parent ELSE x)) <= d

LEMMA WholeIs ==
    ASSUME NEW n, Whole(n)
    PROVE  /\ Placed(n) /\ In(n) \subseteq Ids
           /\ \A x \in In(n) : /\ x \in Ids /\ n[x] # None /\ n[x].parent \in Ids \cup {Root}
                               /\ n[x].parent \in In(n) \cup {Root}
                               /\ n[x].parent # Root => ~IsFile(n, n[x].parent)
           /\ \A x \in In(n) \cup {Root} : /\ Up(n, x) \subseteq In(n) /\ IsFiniteSet(Up(n, x))
                                           /\ Cardinality(Up(n, x)) \in Nat
  <1>1. Placed(n) /\ In(n) \subseteq Ids
    BY TreePlaced DEF Whole, In
  <1>2. \A x \in In(n) : /\ x \in Ids /\ n[x] # None /\ n[x].parent \in Ids \cup {Root}
                         /\ n[x].parent \in In(n) \cup {Root}
                         /\ n[x].parent # Root => ~IsFile(n, n[x].parent)
    BY <1>1 DEF Whole, Tree, In, Placed, IsFile
  <1>3. ASSUME NEW x \in In(n) \cup {Root}
        PROVE  Up(n, x) \subseteq In(n) /\ IsFiniteSet(Up(n, x)) /\ Cardinality(Up(n, x)) \in Nat
    <2>1. Up(n, x) \subseteq In(n)
      BY UpIn DEF Whole
    <2> QED
      BY <2>1, FS_Subset, FS_CardinalityType DEF Whole
  <1> QED
    BY <1>1, <1>2, <1>3

\* An item is one deeper than what it is in.
LEMMA OneDeeper ==
    ASSUME NEW n, Whole(n), NEW x \in In(n)
    PROVE  Cardinality(Up(n, x)) = Cardinality(Up(n, n[x].parent)) + 1
  <1>1. Up(n, x) = Up(n, n[x].parent) \cup {x}
    BY WholeIs, UpStep
  <1>2. x \notin Up(n, n[x].parent)
    BY NoLoop DEF Whole
  <1>3. IsFiniteSet(Up(n, n[x].parent))
    BY WholeIs
  <1> QED
    BY <1>1, <1>2, <1>3, FS_AddElement

\* A tree that lost items, none of them above one it kept, is the same elsewhere.
LEMMA Pruned ==
    ASSUME NEW n, NEW k \in Nodes, Whole(n), In(k) \subseteq In(n),
           \A y \in In(k) : /\ k[y].parent = n[y].parent /\ k[y].kind = n[y].kind
                            /\ n[y].parent \in In(k) \cup {Root}
    PROVE  Whole(k) /\ \A y \in In(k) \cup {Root} : Up(k, y) = Up(n, y)
  <1>1. Placed(n) /\ In(n) \subseteq Ids
    BY WholeIs
  <1>2. In(k) \in SUBSET Ids /\ \A y : y \in In(k) => y \in Ids /\ k[y] # None /\ n[y] # None
    BY <1>1 DEF In
  <1>3. Placed(k)
    BY <1>1, <1>2 DEF Placed, In
  <1>4. ClosedIn(n, In(k))
    BY DEF ClosedIn
  <1>5. ASSUME NEW y \in In(k) \cup {Root} PROVE Up(k, y) = Up(n, y)
    <2>1. Up(n, y) \subseteq In(k)
      BY <1>2, <1>4, UpLeast
    <2>2. \A z \in Up(n, y) : (k[z] # None <=> n[z] # None) /\ (n[z] # None => k[z].parent = n[z].parent)
      BY <1>2, <2>1
    <2>3. y \in Ids \cup {Root}
      BY <1>2
    <2> QED
      BY <1>1, <1>3, <2>2, <2>3, UpSame
  <1>6. Tree(k)
    <2> SUFFICES ASSUME NEW x \in In(k)
                 PROVE  /\ k[x].parent \in {Root} \cup {y \in In(k) : k[y].kind = "dir"}
                        /\ \E y \in Up(k, x) : k[y].parent = Root
      BY DEF Tree
    <2>1. k[x].parent \in {Root} \cup {y \in In(k) : k[y].kind = "dir"}
      BY DEF Whole, Tree
    <2>2. PICK y \in Up(n, x) : n[y].parent = Root
      BY DEF Whole, Tree
    <2>3. y \in In(k)
      BY <1>2, <1>4, UpLeast
    <2> QED
      BY <1>5, <2>1, <2>2, <2>3
  <1>7. IsFiniteSet(In(k))
    BY FS_Subset DEF Whole
  <1> QED
    BY <1>5, <1>6, <1>7 DEF Whole

LEMMA PrunedBounded ==
    ASSUME NEW n, NEW k \in Nodes, NEW d, Whole(n), Bounded(n, d), In(k) \subseteq In(n),
           \A y \in In(k) : /\ k[y].parent = n[y].parent /\ k[y].kind = n[y].kind
                            /\ n[y].parent \in In(k) \cup {Root}
    PROVE  Whole(k) /\ Bounded(k, d)
  BY Pruned DEF Bounded, IsFile

\* A new item, in a folder of the tree.
LEMMA Grown ==
    ASSUME NEW n, NEW k \in Nodes, NEW d, Whole(n), Bounded(n, d), NEW x \in Ids, n[x] = None, k[x] # None,
           \A y \in Ids \ {x} : k[y] = n[y],
           k[x].parent \in In(n) \cup {Root}, k[x].parent # Root => ~IsFile(n, k[x].parent),
           Cardinality(Up(n, k[x].parent)) + (IF IsFile(k, x) THEN 0 ELSE 1) <= d
    PROVE  Whole(k) /\ Bounded(k, d)
  <1>1. In(k) = In(n) \cup {x} /\ x \notin In(n)
    BY DEF In
  <1>2. Placed(n) /\ In(n) \subseteq Ids
    BY WholeIs
  <1>3. \A y \in In(n) : k[y] = n[y]
    BY <1>1, <1>2
  <1>4. Placed(k)
    BY <1>1, <1>2, <1>3 DEF Placed
  <1>5. ASSUME NEW y \in In(n) \cup {Root} PROVE Up(k, y) = Up(n, y)
    <2>1. Up(n, y) \subseteq In(n)
      BY WholeIs
    <2>2. \A z \in Up(n, y) : (k[z] # None <=> n[z] # None) /\ (n[z] # None => k[z].parent = n[z].parent)
      BY <1>3, <2>1
    <2>3. y \in Ids \cup {Root}
      BY <1>2
    <2> QED
      BY <1>2, <1>4, <2>2, <2>3, UpSame
  <1>6. Up(k, x) = {x} \cup Up(n, k[x].parent)
    <2>1. x \in In(k)
      BY <1>1
    <2>2. Up(k, x) = {x} \cup Up(k, k[x].parent)
      BY <1>4, <2>1, UpStep
    <2> QED
      BY <1>5, <2>2
  <1>7. Tree(k)
    <2> SUFFICES ASSUME NEW z \in In(k)
                 PROVE  /\ k[z].parent \in {Root} \cup {y \in In(k) : k[y].kind = "dir"}
                        /\ \E y \in Up(k, z) : k[y].parent = Root
      BY DEF Tree
    <2>1. CASE z # x
      <3>1. z \in In(n) /\ k[z].parent = n[z].parent
        BY <1>1, <1>3, <2>1
      <3>2. PICK y \in Up(n, z) : n[y].parent = Root
        BY <3>1 DEF Whole, Tree
      <3>3. y \in In(n)
        BY <3>1, <3>2, WholeIs
      <3>4. k[z].parent \in {Root} \cup {v \in In(n) : n[v].kind = "dir"}
        BY <3>1 DEF Whole, Tree
      <3> QED
        BY <1>1, <1>3, <1>5, <3>1, <3>2, <3>3, <3>4
    <2>2. CASE z = x
      <3>1. k[x].parent # Root => k[k[x].parent] = n[k[x].parent] /\ n[k[x].parent].kind = "dir" /\ k[x].parent \in In(n)
        <4> SUFFICES ASSUME k[x].parent # Root
                     PROVE  k[k[x].parent] = n[k[x].parent] /\ n[k[x].parent].kind = "dir" /\ k[x].parent \in In(n)
          OBVIOUS
        <4>1. k[x].parent \in In(n) /\ k[x].parent \in Ids /\ n[k[x].parent] # None
          BY <1>2 DEF In
        <4>2. n[k[x].parent].kind = "dir"
          BY <4>1, Kinds DEF Whole, IsFile
        <4> QED
          BY <1>3, <4>1, <4>2
      <3>2. CASE k[x].parent = Root
        BY <1>6, <2>2, <3>2
      <3>3. CASE k[x].parent # Root
        <4>1. PICK y \in Up(n, k[x].parent) : n[y].parent = Root
          BY <3>1, <3>3 DEF Whole, Tree
        <4>2. y \in In(n)
          BY <4>1, WholeIs
        <4> QED
          BY <1>1, <1>3, <1>6, <2>2, <3>1, <4>1, <4>2
      <3> QED
        BY <3>2, <3>3
    <2> QED
      BY <2>1, <2>2
  <1>8. IsFiniteSet(In(k))
    BY <1>1, FS_AddElement DEF Whole
  <1>9. Whole(k)
    BY <1>7, <1>8 DEF Whole
  <1>10. Bounded(k, d)
    <2> SUFFICES ASSUME NEW y \in In(k) PROVE Cardinality(Up(k, IF IsFile(k, y) THEN k[y].parent ELSE y)) <= d
      BY DEF Bounded
    <2>1. CASE y # x
      <3>1. y \in In(n) /\ k[y] = n[y] /\ n[y].parent \in In(n) \cup {Root}
        BY <1>1, <1>3, <2>1, WholeIs
      <3>2. Cardinality(Up(n, IF IsFile(n, y) THEN n[y].parent ELSE y)) <= d
        BY <3>1 DEF Bounded
      <3> QED
        BY <1>5, <3>1, <3>2 DEF IsFile
    <2>2. CASE y = x
      <3>1. IsFiniteSet(Up(n, k[x].parent)) /\ x \notin Up(n, k[x].parent)
        BY <1>1, WholeIs
      <3>2. CASE IsFile(k, x)
        <4>1. Cardinality(Up(n, k[x].parent)) \in Nat
          BY <1>1, WholeIs
        <4> QED
          BY <1>5, <2>2, <3>2, <4>1
      <3>3. CASE ~IsFile(k, x)
        <4>1. Up(k, x) = Up(n, k[x].parent) \cup {x}
          BY <1>6
        <4>2. Cardinality(Up(k, x)) = Cardinality(Up(n, k[x].parent)) + 1
          BY <3>1, <4>1, FS_AddElement
        <4> QED
          BY <2>2, <3>3, <4>2
      <3> QED
        BY <3>2, <3>3
    <2> QED
      BY <2>1, <2>2
  <1> QED
    BY <1>9, <1>10

\* An item moved: k is n with x somewhere it was not above.
Moved(n, k, x) ==
    /\ k \in Nodes /\ x \in In(n) /\ In(k) = In(n)
    /\ \A y \in In(n) : k[y].kind = n[y].kind /\ (y # x => k[y].parent = n[y].parent)
    /\ k[x].parent \in In(n) \cup {Root} /\ (k[x].parent # Root => ~IsFile(n, k[x].parent))
    /\ x \notin Up(n, k[x].parent)

LEMMA MovedElsewhere ==
    ASSUME NEW n, NEW k, NEW x, Whole(n), Moved(n, k, x)
    PROVE  /\ Placed(k)
           /\ \A y \in In(n) \cup {Root} : x \notin Up(n, y) => Up(k, y) = Up(n, y)
           /\ Up(k, x) = Up(n, k[x].parent) \cup {x}
           /\ \A y \in In(n) \cup {Root} : x \in Up(n, y) => x \in Up(k, y)
  <1>1. Placed(n) /\ In(n) \subseteq Ids /\ In(k) = In(n) /\ x \in In(n)
    BY WholeIs DEF Moved
  <1>2. Placed(k)
    <2> SUFFICES ASSUME NEW y \in In(k) PROVE k[y].parent \in Ids \cup {Root}
      BY DEF Placed
    <2>1. n[y].parent \in Ids \cup {Root}
      BY <1>1 DEF Placed
    <2> QED
      BY <1>1, <2>1 DEF Moved
  <1>3. \A y : y \in In(n) => k[y] # None /\ n[y] # None
    BY <1>1 DEF In
  <1>4. ASSUME NEW y \in In(n) \cup {Root}, x \notin Up(n, y) PROVE Up(k, y) = Up(n, y)
    <2>1. Up(n, y) \subseteq In(n)
      BY WholeIs
    <2>2. \A z \in Up(n, y) : (k[z] # None <=> n[z] # None) /\ (n[z] # None => k[z].parent = n[z].parent)
      BY <1>3, <1>4, <2>1 DEF Moved
    <2>3. y \in Ids \cup {Root}
      BY <1>1
    <2> QED
      BY <1>1, <1>2, <2>2, <2>3, UpSame
  <1>5. Up(k, x) = Up(n, k[x].parent) \cup {x}
    <2>1. Up(k, x) = {x} \cup Up(k, k[x].parent)
      BY <1>1, <1>2, UpStep
    <2>2. Up(k, k[x].parent) = Up(n, k[x].parent)
      BY <1>4 DEF Moved
    <2> QED
      BY <2>1, <2>2
  <1>6. ASSUME NEW y \in In(n) \cup {Root}, x \in Up(n, y) PROVE x \in Up(k, y)
    <2> SUFFICES ASSUME x \notin Up(k, y) PROVE FALSE
      OBVIOUS
    <2>1. ClosedIn(k, In(k))
      <3> SUFFICES ASSUME NEW z \in In(k), k[z].parent # Root PROVE k[z].parent \in In(k)
        BY DEF ClosedIn
      <3>1. n[z].parent \in In(n) \cup {Root}
        BY <1>1, WholeIs
      <3> QED
        BY <1>1, <3>1 DEF Moved
    <2>2. Up(k, y) \subseteq In(k)
      BY <1>1, <2>1, UpLeast
    <2>3. \A z \in Up(k, y) : (n[z] # None <=> k[z] # None) /\ (k[z] # None => n[z].parent = k[z].parent)
      BY <1>1, <1>3, <2>2 DEF Moved
    <2>4. y \in Ids \cup {Root}
      BY <1>1
    <2>5. Up(n, y) = Up(k, y)
      BY <1>1, <1>2, <2>3, <2>4, UpSame
    <2> QED
      BY <1>6, <2>5
  <1> QED
    BY <1>2, <1>4, <1>5, <1>6

\* How deep what hangs from a moved item gets.
LEMMA MovedDeep ==
    ASSUME NEW n, NEW k, NEW x, Whole(n), Moved(n, k, x), NEW y \in In(n), x \in Up(n, y)
    PROVE  /\ Cardinality(Up(k, y)) + Cardinality(Up(n, x))
                <= Cardinality(Up(n, y)) + 1 + Cardinality(Up(n, k[x].parent))
           /\ Cardinality(Up(k, y)) \in Nat
  <1> DEFINE M == {z \in Up(n, y) : x \in Up(n, z)}
             P == Up(n, k[x].parent)
  <1>1. Placed(n) /\ In(n) \subseteq Ids /\ In(k) = In(n) /\ x \in In(n) /\ k[x].parent \in In(n) \cup {Root}
    BY WholeIs DEF Moved
  <1>2. IsFiniteSet(P) /\ IsFiniteSet(Up(n, y)) /\ IsFiniteSet(Up(n, x)) /\ Up(n, y) \subseteq In(n) /\ P \subseteq In(n)
    BY <1>1, WholeIs
  <1>3. IsFiniteSet(M) /\ M \subseteq Up(n, y)
    BY <1>2, FS_Subset
  <1>4. Up(k, y) \subseteq M \cup P
    <2>1. M \cup P \in SUBSET Ids
      BY <1>1, <1>2, <1>3
    <2>2. y \in M
      BY <1>1, UpHolds
    <2>3. ASSUME NEW z \in M, z # x PROVE k[z].parent \in M
      <3>1. z \in In(n) /\ x \in Up(n, z) /\ z \in Up(n, y)
        BY <1>2
      <3>2. x \in Up(n, n[z].parent)
        BY <1>1, <2>3, <3>1, UpStep
      <3>3. n[z].parent # Root
        BY <3>2, UpOfRoot
      <3>4. n[z] # None
        BY <3>1 DEF In
      <3>5. n[z].parent \in Up(n, y)
        BY <1>1, <3>1, <3>3, <3>4, UpClosed DEF ClosedIn
      <3> QED
        BY <2>3, <3>1, <3>2, <3>5 DEF Moved
    <2>4. k[x].parent \in P \cup {Root}
      BY <1>1, UpHolds
    <2>5. ASSUME NEW z \in P PROVE k[z].parent \in P \cup {Root}
      <3>1. z # x /\ z \in In(n)
        BY <1>2 DEF Moved
      <3>2. n[z] # None
        BY <3>1 DEF In
      <3>3. n[z].parent \in P \cup {Root}
        BY <1>1, <3>2, UpClosed DEF ClosedIn
      <3> QED
        BY <3>1, <3>3 DEF Moved
    <2>6. ClosedIn(k, M \cup P)
      <3> HIDE DEF M, P
      <3> QED
        BY <2>3, <2>4, <2>5 DEF ClosedIn
    <2> HIDE DEF M, P
    <2> QED
      BY <2>1, <2>2, <2>6, UpLeast
  <1>5. M \cap Up(n, x) = {x}
    <2>1. x \in M
      BY <1>1, UpHolds
    <2>2. x \in Up(n, x)
      BY <1>1, UpHolds
    <2>3. \A z \in M \cap Up(n, x) : z = x
      BY <1>1, NoTwoLoop DEF Whole
    <2> HIDE DEF M
    <2> QED
      BY <2>1, <2>2, <2>3
  <1>6. Up(n, x) \subseteq Up(n, y)
    BY <1>1, UpWithin
  <1> HIDE DEF M, P
  <1>7. Cardinality(M) \in Nat /\ Cardinality(P) \in Nat /\ Cardinality(Up(n, x)) \in Nat /\ Cardinality(Up(n, y)) \in Nat
    BY <1>2, <1>3, FS_CardinalityType
  <1>8. Cardinality(M) + Cardinality(Up(n, x)) - 1 <= Cardinality(Up(n, y))
    <2>1. Cardinality(M \cup Up(n, x)) = Cardinality(M) + Cardinality(Up(n, x)) - Cardinality(M \cap Up(n, x))
      BY <1>2, <1>3, FS_Union
    <2>2. Cardinality(M \cap Up(n, x)) = 1
      BY <1>5, FS_Singleton
    <2>3. Cardinality(M \cup Up(n, x)) <= Cardinality(Up(n, y))
      BY <1>2, <1>3, <1>6, FS_Subset
    <2> QED
      BY <1>7, <2>1, <2>2, <2>3
  <1>9. IsFiniteSet(M \cup P) /\ Cardinality(M \cup P) <= Cardinality(M) + Cardinality(P)
    <2>1. IsFiniteSet(M \cup P) /\ Cardinality(M \cup P) = Cardinality(M) + Cardinality(P) - Cardinality(M \cap P)
      BY <1>2, <1>3, FS_Union
    <2>2. Cardinality(M \cap P) \in Nat
      BY <1>3, FS_Intersection, FS_CardinalityType
    <2> QED
      BY <1>7, <2>1, <2>2
  <1>10. Cardinality(Up(k, y)) <= Cardinality(M \cup P) /\ Cardinality(Up(k, y)) \in Nat /\ Cardinality(M \cup P) \in Nat
    BY <1>4, <1>9, FS_Subset, FS_CardinalityType
  <1>11. P = Up(n, k[x].parent)
    BY DEF P
  <1> QED
    BY <1>7, <1>8, <1>9, <1>10, <1>11

LEMMA MovedWhole == ASSUME NEW n, NEW k, NEW x, Whole(n), Moved(n, k, x) PROVE Whole(k)
  <1>1. Placed(n) /\ In(n) \subseteq Ids /\ In(k) = In(n) /\ x \in In(n) /\ k \in Nodes
    BY WholeIs DEF Moved
  <1>2. Placed(k) /\ Up(k, x) = Up(n, k[x].parent) \cup {x}
    BY MovedElsewhere
  <1>3. ASSUME NEW z \in In(k)
        PROVE  k[z].parent \in {Root} \cup {y \in In(k) : k[y].kind = "dir"}
    <2>1. n[z].parent \in {Root} \cup {y \in In(n) : n[y].kind = "dir"}
      BY <1>1 DEF Whole, Tree
    <2>2. CASE z # x
      BY <1>1, <2>1, <2>2 DEF Moved
    <2>3. CASE z = x
      <3>1. k[x].parent # Root => k[x].parent \in In(n) /\ ~IsFile(n, k[x].parent)
        BY DEF Moved
      <3>2. k[x].parent # Root => n[k[x].parent].kind = "dir"
        BY <1>1, <3>1, WholeIs, Kinds DEF Whole, IsFile
      <3> QED
        BY <1>1, <2>3, <3>1, <3>2 DEF Moved
    <2> QED
      BY <2>2, <2>3
  <1>4. \E y \in Up(k, x) : k[y].parent = Root
    <2>1. CASE k[x].parent = Root
      BY <1>2, <2>1
    <2>2. CASE k[x].parent # Root
      <3>1. k[x].parent \in In(n)
        BY <2>2 DEF Moved
      <3>2. PICK y \in Up(n, k[x].parent) : n[y].parent = Root
        BY <3>1 DEF Whole, Tree
      <3>3. y # x /\ y \in In(n)
        BY <3>1, <3>2, WholeIs DEF Moved
      <3> QED
        BY <1>2, <3>2, <3>3 DEF Moved
    <2> QED
      BY <2>1, <2>2
  <1>5. ASSUME NEW z \in In(k) PROVE \E y \in Up(k, z) : k[y].parent = Root
    <2>1. CASE x \in Up(n, z)
      <3>1. x \in Up(k, z)
        BY <1>1, <2>1, MovedElsewhere
      <3>2. Up(k, x) \subseteq Up(k, z)
        BY <1>2, <3>1, UpWithin
      <3> QED
        BY <1>4, <3>2
    <2>2. CASE x \notin Up(n, z)
      <3>1. Up(k, z) = Up(n, z)
        BY <1>1, <2>2, MovedElsewhere
      <3>2. PICK y \in Up(n, z) : n[y].parent = Root
        BY <1>1 DEF Whole, Tree
      <3>3. y # x /\ y \in In(n)
        BY <1>1, <2>2, <3>2, WholeIs
      <3> QED
        BY <3>1, <3>2, <3>3 DEF Moved
    <2> QED
      BY <2>1, <2>2
  <1> QED
    BY <1>1, <1>3, <1>5 DEF Whole, Tree

\* Nothing hangs from a file.
LEMMA FilesAreLeaves ==
    ASSUME NEW n, Whole(n), NEW x \in In(n), IsFile(n, x), NEW y \in In(n) \cup {Root}, x \in Up(n, y)
    PROVE  y = x
  <1> SUFFICES ASSUME y # x PROVE FALSE
    OBVIOUS
  <1> DEFINE S == Up(n, y) \ {x}
  <1>1. Placed(n) /\ In(n) \subseteq Ids
    BY WholeIs
  <1>2. S \in SUBSET Ids /\ y \in S \cup {Root}
    BY <1>1, UpHolds DEF Up
  <1>3. ClosedIn(n, S)
    <2> SUFFICES ASSUME NEW z \in S, n[z] # None, n[z].parent # Root PROVE n[z].parent \in S
      BY DEF ClosedIn
    <2>1. n[z].parent \in Up(n, y)
      BY <1>1, UpClosed DEF ClosedIn
    <2>2. z \in In(n)
      BY WholeIs
    <2>3. ~IsFile(n, n[z].parent)
      BY <2>2, WholeIs
    <2> QED
      BY <2>1, <2>3
  <1>4. x \notin S
    OBVIOUS
  <1> HIDE DEF S
  <1> QED
    BY <1>2, <1>3, <1>4, UpLeast

LEMMA MovedBounded ==
    ASSUME NEW n, NEW k, NEW x, NEW d \in Nat, NEW h \in Int, Whole(n), Moved(n, k, x), Bounded(n, d),
           \A y \in In(n) : ~IsFile(n, y) /\ x \in Up(n, y) => Cardinality(Up(n, y)) - Cardinality(Up(n, x)) <= h,
           Cardinality(Up(n, k[x].parent)) + (IF IsFile(n, x) THEN 0 ELSE 1 + h) <= d
    PROVE  Bounded(k, d)
  <1>1. Placed(n) /\ In(n) \subseteq Ids /\ In(k) = In(n) /\ x \in In(n) /\ k[x].parent \in In(n) \cup {Root}
    BY WholeIs DEF Moved
  <1>2. \A y \in In(n) \cup {Root} : Cardinality(Up(n, y)) \in Nat
    BY WholeIs
  \* A folder, or the top folder, after the move.
  <1>3. ASSUME NEW y \in In(n), ~IsFile(n, y) PROVE Cardinality(Up(k, y)) <= d
    <2>1. CASE x \notin Up(n, y)
      <3>1. Up(k, y) = Up(n, y)
        BY <2>1, MovedElsewhere
      <3> QED
        BY <1>3, <3>1 DEF Bounded
    <2>2. CASE x \in Up(n, y)
      <3>1. ~IsFile(n, x)
        BY <1>1, <1>3, <2>2, FilesAreLeaves
      <3>2. Cardinality(Up(n, y)) - Cardinality(Up(n, x)) <= h
        BY <1>3, <2>2
      <3>3. Cardinality(Up(n, k[x].parent)) + 1 + h <= d
        BY <3>1, <1>1, <1>2
      <3>4. /\ Cardinality(Up(k, y)) + Cardinality(Up(n, x)) <= Cardinality(Up(n, y)) + 1 + Cardinality(Up(n, k[x].parent))
            /\ Cardinality(Up(k, y)) \in Nat
        BY <2>2, MovedDeep
      <3>5. Cardinality(Up(n, y)) \in Nat /\ Cardinality(Up(n, x)) \in Nat /\ Cardinality(Up(n, k[x].parent)) \in Nat
        BY <1>1, <1>2
      <3> QED
        BY <3>2, <3>3, <3>4, <3>5
    <2> QED
      BY <2>1, <2>2
  <1> SUFFICES ASSUME NEW y \in In(k) PROVE Cardinality(Up(k, IF IsFile(k, y) THEN k[y].parent ELSE y)) <= d
    BY DEF Bounded
  <1>4. y \in In(n) /\ (IsFile(k, y) <=> IsFile(n, y))
    BY <1>1 DEF Moved, IsFile
  <1>5. CASE ~IsFile(n, y)
    BY <1>3, <1>4, <1>5
  <1>6. CASE IsFile(n, y) /\ y # x
    <2>1. k[y].parent = n[y].parent
      BY <1>4, <1>6 DEF Moved
    <2>2. n[y].parent \in In(n) \cup {Root} /\ (n[y].parent # Root => ~IsFile(n, n[y].parent))
      BY <1>4, WholeIs
    <2>3. CASE n[y].parent = Root
      <3>1. Up(k, Root) = Up(n, Root)
        BY UpOfRoot
      <3>2. Cardinality(Up(n, n[y].parent)) <= d
        BY <1>4, <1>6 DEF Bounded
      <3> QED
        BY <1>4, <1>6, <2>1, <2>3, <3>1, <3>2
    <2>4. CASE n[y].parent # Root
      <3>1. Cardinality(Up(k, n[y].parent)) <= d
        BY <1>3, <2>2, <2>4
      <3> QED
        BY <1>4, <1>6, <2>1, <3>1
    <2> QED
      BY <2>3, <2>4
  <1>7. CASE IsFile(n, y) /\ y = x
    <2>1. Up(k, k[x].parent) = Up(n, k[x].parent)
      BY <1>1, MovedElsewhere DEF Moved
    <2>2. Cardinality(Up(n, k[x].parent)) <= d
      BY <1>1, <1>2, <1>7
    <2> QED
      BY <1>4, <1>7, <2>1, <2>2
  <1> QED
    BY <1>5, <1>6, <1>7

-----------------------------------------------------------------------------
\* The tree of the Drive.
LEMMA TreeOfDrive ==
    ASSUME NodeType, Undrawn
    PROVE  /\ Hangs <=> IsFiniteSet(drawn) /\ Whole(node) /\ Bounded(node, plan.depth)
           /\ In(node) = Items /\ \A x \in Items : (x \in Files <=> IsFile(node, x)) /\ Parent(x) = node[x].parent
           /\ \A y \in In(node) \cup {Root} : Depth(y) = Cardinality(Up(node, y))
           /\ Folders = {Root} \cup {y \in In(node) : ~IsFile(node, y)}
  <1>1. In(node) = Items /\ \A x \in Items : (x \in Files <=> IsFile(node, x)) /\ Parent(x) = node[x].parent
    BY DEF In, Items, Files, IsFile, Parent
  <1>2. \A y \in In(node) \cup {Root} : Depth(y) = Cardinality(Up(node, y))
    BY AboveIsUp, UpOfRoot, FS_EmptySet DEF Depth
  <1>3. Folders = {Root} \cup {y \in In(node) : ~IsFile(node, y)}
    BY <1>1 DEF Folders
  <1>4. node \in Nodes /\ Items \subseteq drawn
    BY FileKinds DEF Undrawn
  <1>5. \A x \in In(node) : node[x].kind = "dir" <=> ~IsFile(node, x)
    BY <1>4, Kinds DEF In, IsFile
  <1>6. Folders = {Root} \cup {y \in In(node) : node[y].kind = "dir"}
    BY <1>3, <1>5
  <1>7. Tree(node) <=> \A x \in Items : Parent(x) \in Folders /\ \E y \in Above(x) : Parent(y) = Root
    BY <1>1, <1>6, AboveIsUp DEF Tree, Parent
  <1>8. ASSUME Tree(node)
        PROVE  Bounded(node, plan.depth) <=> \A x \in Items : Depth(IF x \in Files THEN Parent(x) ELSE x) <= plan.depth
    <2>1. \A x \in In(node) : node[x].parent \in In(node) \cup {Root}
      BY <1>8 DEF Tree
    <2> QED
      BY <1>1, <1>2, <2>1 DEF Bounded
  <1>9. IsFiniteSet(drawn) => IsFiniteSet(In(node))
    BY <1>1, <1>4, FS_Subset
  <1>10. Hangs <=> IsFiniteSet(drawn) /\ Whole(node) /\ Bounded(node, plan.depth)
    <2> DEFINE T == \A x \in Items : Parent(x) \in Folders /\ \E y \in Above(x) : Parent(y) = Root
               B == \A x \in Items : Depth(IF x \in Files THEN Parent(x) ELSE x) <= plan.depth
    <2>1. Hangs <=> IsFiniteSet(drawn) /\ T /\ B
      BY DEF Hangs
    <2> HIDE DEF T, B
    <2>2. T <=> Tree(node)
      BY <1>7 DEF T
    <2>3. T => (B <=> Bounded(node, plan.depth))
      BY <1>8, <2>2 DEF B
    <2> QED
      BY <1>4, <1>9, <2>1, <2>2, <2>3 DEF Whole
  <1> QED
    BY <1>1, <1>2, <1>3, <1>10

\* How deep folders reach below an item bounds how deep each of them is.
LEMMA DirHeightBounds ==
    ASSUME NodeType, Undrawn, Hangs, NEW x \in Items
    PROVE  /\ DirHeight(x) \in Int
           /\ \A y \in In(node) : ~IsFile(node, y) /\ x \in Up(node, y) =>
                Cardinality(Up(node, y)) - Cardinality(Up(node, x)) <= DirHeight(x)
  <1>1. Whole(node) /\ In(node) = Items /\ \A y \in Items : (y \in Files <=> IsFile(node, y))
    BY TreeOfDrive
  <1> DEFINE c(y) == Cardinality(Up(node, y))
             below == {c(y) - c(x) : y \in Subtree(x) \ Files}
  <1>2. \A y \in Items : c(y) \in Nat
    BY <1>1, WholeIs
  <1>3. Subtree(x) = {y \in Items : x \in Up(node, y)}
    BY AboveIsUp DEF Subtree
  <1>4. DirHeight(x) = IF below = {} THEN 0 ELSE CHOOSE h \in below : \A k \in below : k <= h
    <2>1. Levels(x) = below
      BY AboveIsUp DEF Levels
    <2> HIDE DEF below
    <2> QED
      BY <2>1 DEF DirHeight
  <1>5. below \subseteq Int
    BY <1>2, <1>3
  <1>6. below # {} => \E h \in below : \A k \in below : k <= h
    <2> SUFFICES ASSUME below # {} PROVE \E h \in below : \A k \in below : k <= h
      OBVIOUS
    <2> DEFINE N == Cardinality(Items)
               far == {N - b : b \in below}
    <2>1. N \in Nat
      BY <1>1, FS_CardinalityType DEF Whole
    <2>2. \A y \in Items : c(y) <= N
      BY <1>1, WholeIs, FS_Subset DEF Whole
    <2>3. \A b \in below : b \in Int /\ b <= N
      BY <1>2, <1>3, <2>1, <2>2
    <2>4. far \in SUBSET Nat /\ far # {}
      <3> HIDE DEF below, N
      <3> QED
        BY <2>1, <2>3
    <2> HIDE DEF far
    <2>5. PICK m \in far : \A f \in far : m <= f
      BY <2>4, SmallestOf
    <2> HIDE DEF below, N
    <2>6. PICK h \in below : m = N - h
      BY DEF far
    <2>7. \A k \in below : k <= h
      <3> TAKE k \in below
      <3>1. m <= N - k
        BY <2>5 DEF far
      <3>2. h \in Int /\ k \in Int
        BY <2>3
      <3> QED
        BY <2>1, <2>6, <3>1, <3>2
    <2> QED
      BY <2>7
  <1>7. DirHeight(x) \in Int /\ \A k \in below : k <= DirHeight(x)
    <2> HIDE DEF below
    <2>1. CASE below = {}
      BY <1>4, <2>1
    <2>2. CASE below # {}
      <3>1. DirHeight(x) \in below /\ \A k \in below : k <= DirHeight(x)
        BY <1>4, <1>6, <2>2
      <3> QED
        BY <1>5, <3>1
    <2> QED
      BY <2>1, <2>2
  <1>8. ASSUME NEW y \in In(node), ~IsFile(node, y), x \in Up(node, y) PROVE c(y) - c(x) \in below
    <2>1. y \in Subtree(x) \ Files
      BY <1>1, <1>3, <1>8
    <2> QED
      BY <2>1
  <1> QED
    BY <1>7, <1>8

LEMMA HangsStep == ASSUME IInv, [Next]_vars PROVE Hangs'
  <1>1. NodeType /\ StoreType /\ Undrawn /\ Hangs /\ BlockHolds /\ BoundsType
    BY Parts
  <1>2. NodeType' /\ Undrawn'
    BY NodeTypeStep, UndrawnStep
  <1>3. /\ Whole(node) /\ Bounded(node, plan.depth) /\ IsFiniteSet(drawn)
        /\ node \in Nodes /\ In(node) = Items
        /\ \A x \in Items : (x \in Files <=> IsFile(node, x)) /\ Parent(x) = node[x].parent
        /\ \A y \in In(node) \cup {Root} : Depth(y) = Cardinality(Up(node, y))
        /\ Folders = {Root} \cup {y \in In(node) : ~IsFile(node, y)}
    BY <1>1, TreeOfDrive, FileKinds
  <1>4. node' \in Nodes /\ UNCHANGED plan
    BY <1>2, BoundsTouched DEF NodeType, Nodes
  <1>5. Hangs' <=> IsFiniteSet(drawn') /\ Whole(node') /\ Bounded(node', plan'.depth)
    <2>1. (NodeType /\ Undrawn => (Hangs <=> IsFiniteSet(drawn) /\ Whole(node) /\ Bounded(node, plan.depth)))'
      BY TreeOfDrive, PTL
    <2> QED
      BY <1>2, <2>1
  <1>6. plan.depth \in Nat
    BY <1>1, PlansAssumption, SizesAssumption DEF BoundsType, Plan
  <1> DEFINE Good == Whole(node') /\ Bounded(node', plan.depth) /\ IsFiniteSet(drawn')
  \* Steps that leave where items are alone.
  <1>7. ASSUME UNCHANGED drawn, In(node') \subseteq In(node),
               \A y \in In(node') : /\ node'[y].parent = node[y].parent /\ node'[y].kind = node[y].kind
                                    /\ node[y].parent \in In(node') \cup {Root}
        PROVE  Good
    BY <1>3, <1>4, <1>7, PrunedBounded
  <1>8. ASSUME UNCHANGED drawn, NEW z \in In(node), node'[z].kind = node[z].kind, node'[z].parent = node[z].parent,
               node'[z] # None, \A y \in Ids \ {z} : node'[y] = node[y]
        PROVE  Good
    <2>1. In(node') = In(node)
      BY <1>8 DEF In
    <2>2. \A y \in In(node) : node[y].parent \in In(node) \cup {Root}
      BY <1>3, WholeIs
    <2>3. In(node) \subseteq Ids
      BY DEF In
    <2> QED
      BY <1>7, <1>8, <2>1, <2>2, <2>3
  <1>9. ASSUME UNCHANGED <<node, drawn>> PROVE Good
    BY <1>3, <1>9
  <1>10. ASSUME NEW z \in Ids, NEW parent \in Ids \cup {Root}, CreateFolder(z, parent) PROVE Good
    <2>1. /\ node' = [node EXCEPT ![z] = [kind |-> "dir", parent |-> parent]] /\ drawn' = drawn \cup {z}
          /\ z \notin drawn /\ parent \in Folders /\ Depth(parent) + 1 <= plan.depth
      BY <1>10 DEF CreateFolder, MayAdd
    <2>2. [kind |-> "dir", parent |-> parent] \in Folder
      BY DEF Folder
    <2>3. node'[z] = [kind |-> "dir", parent |-> parent] /\ \A y \in Ids \ {z} : node'[y] = node[y]
      BY <1>3, <2>1 DEF Nodes
    <2>4. node'[z] # None /\ node'[z].parent = parent /\ ~IsFile(node', z)
      BY <2>2, <2>3, NamesAssumption DEF IsFile
    <2>5. node[z] = None
      BY <1>1, <2>1 DEF Undrawn, Items
    <2>6. parent \in In(node) \cup {Root} /\ (parent # Root => ~IsFile(node, parent))
      BY <1>3, <2>1
    <2>7. Cardinality(Up(node, parent)) + 1 <= plan.depth
      BY <1>3, <2>1, <2>6
    <2>8. Whole(node') /\ Bounded(node', plan.depth)
      BY <1>3, <1>4, <2>3, <2>4, <2>5, <2>6, <2>7, Grown
    <2> QED
      BY <1>3, <2>1, <2>8, FS_AddElement
  <1>11. ASSUME NEW z \in Ids, NEW parent \in Ids \cup {Root}, NEW size \in 0 .. MaxSize, CreateFile(z, parent, size) PROVE Good
    <2> DEFINE f == [kind |-> "file", parent |-> parent, size |-> size, state |-> "pending", at |-> now, rows |-> {}]
    <2>1. /\ node' = [node EXCEPT ![z] = f] /\ drawn' = drawn \cup {z}
          /\ z \notin drawn /\ parent \in Folders /\ Depth(parent) <= plan.depth
      BY <1>11 DEF CreateFile, MayAdd
    <2>2. f \in File
      BY <1>1 DEF File, BoundsType
    <2>3. node'[z] = f /\ \A y \in Ids \ {z} : node'[y] = node[y]
      BY <1>3, <2>1 DEF Nodes
    <2>4. node'[z] # None /\ node'[z].parent = parent /\ IsFile(node', z)
      BY <2>2, <2>3, NamesAssumption DEF IsFile
    <2>5. node[z] = None
      BY <1>1, <2>1 DEF Undrawn, Items
    <2>6. parent \in In(node) \cup {Root} /\ (parent # Root => ~IsFile(node, parent))
      BY <1>3, <2>1
    <2>7. Cardinality(Up(node, parent)) + 0 <= plan.depth
      <3>1. Cardinality(Up(node, parent)) \in Nat
        BY <1>3, <2>6, WholeIs
      <3> QED
        BY <1>3, <2>1, <2>6, <3>1
    <2> HIDE DEF f
    <2>8. Whole(node') /\ Bounded(node', plan.depth)
      BY <1>3, <1>4, <2>3, <2>4, <2>5, <2>6, <2>7, Grown
    <2> QED
      BY <1>3, <2>1, <2>8, FS_AddElement
  <1>12. ASSUME NEW z \in Ids, NEW parent \in Ids \cup {Root}, Move(z, parent) PROVE Good
    <2>1. z \in In(node) /\ parent \in Folders /\ UNCHANGED drawn
      BY <1>3, <1>12 DEF Move
    <2>2. /\ node'[z].kind = node[z].kind /\ node'[z].parent = parent /\ node'[z] # None
          /\ \A y \in Ids \ {z} : node'[y] = node[y]
      <3>1. CASE z \in Files
        <4>1. node[z] \in File
          BY <1>1, <3>1, FileKinds
        <4>2. node' = [node EXCEPT ![z] = [node[z] EXCEPT !.parent = parent, !.at = now]]
          BY <1>12, <3>1 DEF Move
        <4>3. now \in 0 .. MaxTime
          BY <1>1 DEF BoundsType
        <4>4. [node[z] EXCEPT !.parent = parent, !.at = now] \in File
          BY <4>1, <4>3, MovedType
        <4>5. [node[z] EXCEPT !.parent = parent, !.at = now].kind = node[z].kind
              /\ [node[z] EXCEPT !.parent = parent, !.at = now].parent = parent
          BY <4>1 DEF File
        <4>6. node'[z] = [node[z] EXCEPT !.parent = parent, !.at = now] /\ \A y \in Ids \ {z} : node'[y] = node[y]
          BY <1>3, <4>2 DEF Nodes
        <4> QED
          BY <4>4, <4>5, <4>6, NamesAssumption
      <3>2. CASE z \notin Files
        <4>1. node[z] \in Folder
          BY <1>1, <1>3, <2>1, <3>2, FileKinds
        <4>2. node' = [node EXCEPT ![z] = [node[z] EXCEPT !.parent = parent]]
          BY <1>12, <3>2 DEF Move
        <4>3. [node[z] EXCEPT !.parent = parent] \in Folder
              /\ [node[z] EXCEPT !.parent = parent].kind = node[z].kind
              /\ [node[z] EXCEPT !.parent = parent].parent = parent
          BY <4>1 DEF Folder
        <4>4. node'[z] = [node[z] EXCEPT !.parent = parent] /\ \A y \in Ids \ {z} : node'[y] = node[y]
          BY <1>3, <4>2 DEF Nodes
        <4> QED
          BY <4>3, <4>4, NamesAssumption
      <3> QED
        BY <3>1, <3>2
    <2>3. CASE parent = node[z].parent
      BY <1>8, <2>1, <2>2, <2>3
    <2>4. CASE parent # node[z].parent
      <3>1. z \notin Up(node, parent) /\ Fits(z, parent)
        BY <1>3, <1>12, <2>1, <2>4, AboveIsUp DEF Move, NoCycle
      <3>2. parent \in In(node) \cup {Root} /\ (parent # Root => ~IsFile(node, parent))
        BY <1>3, <2>1
      <3>3. In(node') = In(node)
        BY <2>1, <2>2 DEF In
      <3>4. Moved(node, node', z)
        <4>1. In(node) \subseteq Ids
          BY DEF In
        <4> QED
          BY <1>4, <2>1, <2>2, <3>1, <3>2, <3>3, <4>1 DEF Moved
      <3>5. Whole(node')
        BY <1>3, <3>4, MovedWhole
      <3>6. /\ DirHeight(z) \in Int
            /\ \A y \in In(node) : ~IsFile(node, y) /\ z \in Up(node, y) =>
                 Cardinality(Up(node, y)) - Cardinality(Up(node, z)) <= DirHeight(z)
        BY <1>1, <1>3, <2>1, DirHeightBounds
      <3>7. Cardinality(Up(node, node'[z].parent)) + (IF IsFile(node, z) THEN 0 ELSE 1 + DirHeight(z)) <= plan.depth
        BY <1>3, <2>1, <2>2, <3>1, <3>2 DEF Fits
      <3>8. Bounded(node', plan.depth)
        BY <1>3, <1>6, <3>4, <3>6, <3>7, MovedBounded
      <3> QED
        BY <1>3, <2>1, <3>5, <3>8
    <2> QED
      BY <2>3, <2>4
  <1>13. ASSUME NEW p \in Puts, ChunkRecorded(p) PROVE Good
    <2> DEFINE z == put[p].id
    <2>1. z \in Pending /\ node[z] \in File /\ z \in In(node) /\ put[p] \in Write /\ UNCHANGED drawn
      BY <1>1, <1>3, <1>13, FileKinds, WriteType DEF ChunkRecorded
    <2>2. [node[z] EXCEPT !.rows = @ \cup {put[p].i}, !.at = now] \in File
      BY <1>1, <2>1 DEF File, Write, BoundsType
    <2>3. [node[z] EXCEPT !.rows = @ \cup {put[p].i}, !.at = now].kind = node[z].kind
          /\ [node[z] EXCEPT !.rows = @ \cup {put[p].i}, !.at = now].parent = node[z].parent
      BY <2>1 DEF File
    <2>4. node'[z] = [node[z] EXCEPT !.rows = @ \cup {put[p].i}, !.at = now] /\ \A y \in Ids \ {z} : node'[y] = node[y]
      BY <1>3, <1>13, <2>1 DEF ChunkRecorded, Nodes, In
    <2> HIDE DEF z
    <2> QED
      BY <1>8, <2>1, <2>2, <2>3, <2>4, NamesAssumption
  <1>14. ASSUME NEW z \in Ids, EndFinalize(z) PROVE Good
    <2>1. CASE Complete(z)
      <3>1. z \in Pending /\ node[z] \in File /\ z \in In(node) /\ UNCHANGED drawn
        BY <1>1, <1>3, <1>14, <2>1, FileKinds DEF EndFinalize, Complete
      <3>2. [node[z] EXCEPT !.state = "ready", !.rows = {}, !.at = now] \in File
        BY <1>1, <3>1 DEF File, BoundsType
      <3>3. [node[z] EXCEPT !.state = "ready", !.rows = {}, !.at = now].kind = node[z].kind
            /\ [node[z] EXCEPT !.state = "ready", !.rows = {}, !.at = now].parent = node[z].parent
        BY <3>1 DEF File
      <3>4. node'[z] = [node[z] EXCEPT !.state = "ready", !.rows = {}, !.at = now] /\ \A y \in Ids \ {z} : node'[y] = node[y]
        BY <1>3, <1>14, <2>1 DEF EndFinalize, Nodes
      <3> QED
        BY <1>8, <3>1, <3>2, <3>3, <3>4, NamesAssumption
    <2>2. CASE ~Complete(z)
      BY <1>9, <1>14, <2>2 DEF EndFinalize
    <2> QED
      BY <2>1, <2>2
  <1>15. ASSUME RowsGone PROVE Good
    <2>1. In(node') = Items'
      BY DEF In, Items
    <2>2. Items' = Items \ block.ids /\ (\A y \in Items' : node'[y] = node[y]) /\ UNCHANGED drawn /\ block # None
      BY <1>15, RowsGoneIs
    <2>3. ASSUME NEW y \in In(node') PROVE node[y].parent \in In(node') \cup {Root}
      <3>1. y \in Items /\ y \notin block.ids
        BY <2>1, <2>2
      <3>2. node[y].parent \in Items \cup {Root} /\ node[y].parent \notin block.ids
        BY <1>1, <1>3, <2>2, <3>1, WholeIs DEF BlockHolds
      <3> QED
        BY <2>1, <2>2, <3>2
    <2> QED
      BY <1>3, <1>7, <2>1, <2>2, <2>3
  <1> HIDE DEF Good
  <1>16. Good
    BY NodeTouched, <1>9, <1>10, <1>11, <1>12, <1>13, <1>14, <1>15 DEF RowsGone
  <1> QED
    BY <1>4, <1>5, <1>16 DEF Good

-----------------------------------------------------------------------------
LEMMA IInvInit == Init => IInv
  <1> SUFFICES ASSUME Init PROVE IInv
    OBVIOUS
  <1>1. /\ Items = {} /\ Files = {} /\ Pending = {} /\ Answered = {} /\ block = None
        /\ r2 = {} /\ stray = {} /\ drawn = {} /\ refs = {} /\ \A p \in Puts : put[p] = None
    BY DEF Init, Items, Files, Pending, Answered
  <1>2. TypeOK
    <2>1. NodeType /\ StoreType /\ BlockType /\ AlarmType /\ EndsType
      BY <1>1 DEF Init, NodeType, StoreType, BlockType, AlarmType, EndsType
    <2>2. ShareType
      BY DEF Init, ShareType
    <2>3. QuotaType
      BY DEF Init, QuotaType
    <2>4. BoundsType
      BY SizesAssumption DEF Init, BoundsType
    <2> QED
      BY <2>1, <2>2, <2>3, <2>4, TypeParts
  <1>3. Store
    BY <1>1 DEF Store, Undrawn, Shapes, R2Owned, RowsStored, PutsStored, NoLateWrite, BlockHolds
  <1>4. Sharing
    <2>1. \A s \in Shares : share[s].st = "no" /\ share[s].ids = {}
      BY DEF Init
    <2>2. ending = {} /\ bye.left = {} /\ bye.at = "no"
      BY DEF Init
    <2> QED
      BY <1>1, <2>1, <2>2 DEF Sharing, ShareFiles, SharesWhole, RefsNameItems, ByeLeft
  <1>5. QuotaHeld
    BY <1>1 DEF Init, QuotaHeld
  <1>6. Lapsing
    <2>1. Due(node) = {}
      BY <1>1 DEF Due, Items
    <2> QED
      BY <1>1, <2>1 DEF Lapsing, PendingBefore, AlarmCovers
  <1>7. Hangs
    BY <1>1, FS_EmptySet DEF Hangs
  <1> QED
    BY <1>2, <1>3, <1>4, <1>5, <1>6, <1>7 DEF IInv

LEMMA IInvNext == IInv /\ [Next]_vars => IInv'
  <1> SUFFICES ASSUME IInv, [Next]_vars PROVE IInv'
    OBVIOUS
  <1>1. TypeOK' /\ Store' /\ Sharing' /\ QuotaHeld' /\ Lapsing' /\ Hangs'
    BY TypeStep, StoreStep, SharingStep, QuotaHeldStep, LapsingStep, HangsStep
  <1> QED
    BY <1>1 DEF IInv

LEMMA IInvSafe == IInv => DriveSafe
  <1> SUFFICES ASSUME IInv PROVE DriveSafe
    OBVIOUS
  <1>1. TypeOK /\ NoLateWrite /\ SharesWhole /\ RefsNameItems /\ AlarmCovers
    BY Parts DEF IInv
  <1>2. TreeSound
    BY Parts DEF TreeSound, Hangs
  <1>3. NoOrphans
    <2>1. Answered \subseteq {<<put[p].id, put[p].i>> : p \in {q \in Puts : put[q] # None}}
      BY DEF Answered
    <2> QED
      BY <2>1, Parts DEF NoOrphans, R2Owned
  <1>4. ReadyComplete
    <2> SUFFICES ASSUME NEW x \in (Files \ Pending) \ torn, block = None \/ x \notin block.ids, NEW i \in ChunksOf(x)
                 PROVE  <<x, i>> \in r2
      BY DEF ReadyComplete
    <2>1. x \in Files \ torn /\ ~Chosen(x) /\ i \in Recorded(x)
      BY DEF Chosen, Recorded
    <2> QED
      BY <2>1, Parts DEF RowsStored
  <1>5. QuotaBackOnce
    <2> SUFFICES ASSUME NEW x \in Ids
                 PROVE  paid[x] + (IF x \in owed THEN 1 ELSE 0) <= (IF x \in ended THEN 0 ELSE 1)
      BY DEF QuotaBackOnce
    <2>1. /\ paid[x] <= 1
          /\ x \in ended => paid[x] = 0 /\ x \notin owed
          /\ x \in owed => paid[x] = 0
      BY Parts DEF QuotaHeld
    <2>2. paid[x] \in 0 .. 2
      BY Parts DEF QuotaType
    <2> QED
      BY <2>1, <2>2
  <1>6. GoneIsGone
    <2> SUFFICES ASSUME bye.at = "done", Items = {}, \A p \in Puts : put[p] = None
                 PROVE  /\ r2 \subseteq lost
                        /\ \A s \in Shares : share[s].st = "live" => s \in loose \cup ending
      BY DEF GoneIsGone
    <2>1. r2 \subseteq lost
      <3>1. Objects(Items) = {} /\ Answered = {}
        BY DEF Objects, Answered
      <3> QED
        BY <3>1, Parts DEF R2Owned
    <2>2. ASSUME NEW s \in Shares, share[s].st = "live", s \notin loose, s \notin ending PROVE FALSE
      <3>1. bye.left = {}
        BY Parts DEF ByeLeft
      <3>2. PICK x \in share[s].ids : TRUE
        BY <2>2, Parts DEF ShareFiles
      <3>3. x \in Files
        BY <2>2, <3>1, <3>2, Parts DEF SharesWhole
      <3> QED
        BY <3>3 DEF Files
    <2> QED
      BY <2>1, <2>2
  <1> QED
    BY <1>1, <1>2, <1>3, <1>4, <1>5, <1>6 DEF DriveSafe

LEMMA IInvAlways == Spec => []IInv
  BY IInvInit, IInvNext, PTL DEF Spec

\* A Drive keeps what DriveSafe says through any interleaving of its requests, uploads, removals,
\* alarms, restarts and the account's end: the tree hangs together within the role's depth, R2 holds the
\* chunks of its items and nothing else, a finished file is whole, a live share has all its files, an
\* upload's quota is given back once, and the alarm covers every upload that may lapse
\* (drive-do.js:385-395, 892-1051, 1143-1161).
THEOREM DriveKept == Spec => []DriveSafe
  BY IInvAlways, IInvSafe, PTL
=============================================================================
