------------------------- MODULE PageTable_proofs -------------------------
(***************************************************************************)
(* Proofs about PageTable, for any size of the tables, any frames, any     *)
(* virtual pages and any choice of the page allocator: the tables stay     *)
(* well formed (PtInv), and so they implement AddressSpaces.               *)
(***************************************************************************)
EXTENDS PageTable, TLAPS

\* The lvl4 tables are frames, and their level says what they are.
LEMMA RootFacts ==
  ASSUME PtInv, NEW r \in Roots
  PROVE  r \in Frames /\ level[r] = 4 /\ level[r] > 1
  BY PageTableAssumption DEF PtInv, TypeOK, Trees, Roots

\* The indices of a virtual page.
LEMMA PageFacts ==
  ASSUME NEW v \in VPages
  PROVE  v \in [1..4 -> Idx] /\ v[1] \in Idx /\ v[2] \in Idx /\ v[3] \in Idx /\ v[4] \in Idx
  BY PageTableAssumption DEF Levels

\* An entry, or what the processor takes for one, has its fields.
LEMMA EntryFacts ==
  ASSUME TypeOK, NEW f \in Frames, NEW i \in Idx
  PROVE  /\ mem[f][i] \in Entry
         /\ mem[f][i].to \in Frames /\ mem[f][i].p \in BOOLEAN
         /\ mem[f][i].us \in BOOLEAN /\ mem[f][i].dev \in BOOLEAN
  BY DEF TypeOK, Entry

\* The empty entry is an entry that leads nowhere.
LEMMA ZeroFacts == Zero \in Entry /\ ~Zero.p /\ ~Zero.us /\ Zero.to \in Frames
  BY Zenon, PageTableAssumption DEF Zero, Entry

\* Where a walk of the processor gets to, level by level.
LEMMA WalkFacts ==
  ASSUME PtInv, NEW r \in Roots, NEW v \in VPages
  PROVE  /\ E4(r, v) = mem[r][v[4]] /\ E4(r, v) \in Entry
         /\ E4(r, v).p => level[E4(r, v).to] = 3 /\ E3(r, v) = mem[E4(r, v).to][v[3]]
         /\ E3(r, v) \in Entry
         /\ E3(r, v).p => E4(r, v).p /\ level[E3(r, v).to] = 2 /\ E2(r, v) = mem[E3(r, v).to][v[2]]
         /\ E2(r, v) \in Entry
         /\ E2(r, v).p => E3(r, v).p /\ level[E2(r, v).to] = 1 /\ E1(r, v) = mem[E2(r, v).to][v[1]]
         /\ E1(r, v) \in Entry
         /\ E1(r, v).p => E2(r, v).p
         /\ ~E4(r, v).p => E3(r, v) = Zero
         /\ ~E3(r, v).p => E2(r, v) = Zero
         /\ ~E2(r, v).p => E1(r, v) = Zero
  <1>1. TypeOK /\ Trees
    BY Zenon DEF PtInv
  <1>2. r \in Frames /\ level[r] = 4 /\ v[1] \in Idx /\ v[2] \in Idx /\ v[3] \in Idx /\ v[4] \in Idx
    BY Zenon, RootFacts, PageFacts
  <1>3. \A f \in Frames, i \in Idx :
          /\ mem[f][i] \in Entry /\ mem[f][i].to \in Frames
          /\ level[f] > 1 /\ mem[f][i].p => level[mem[f][i].to] = level[f] - 1
    BY Zenon, <1>1, EntryFacts DEF Trees, Points
  <1>4. E4(r, v) = mem[r][v[4]] /\ E4(r, v) \in Entry /\ E4(r, v).to \in Frames
        /\ (E4(r, v).p => level[E4(r, v).to] = 3)
    BY <1>2, <1>3 DEF E4
  <1>5. /\ E4(r, v).p => E3(r, v) = mem[E4(r, v).to][v[3]]
        /\ ~E4(r, v).p => E3(r, v) = Zero
    BY Zenon DEF E3, Sub
  <1>6. E3(r, v) \in Entry /\ E3(r, v).to \in Frames
        /\ (E3(r, v).p => E4(r, v).p /\ level[E3(r, v).to] = 2)
    BY <1>2, <1>3, <1>4, <1>5, ZeroFacts
  <1>7. /\ E3(r, v).p => E2(r, v) = mem[E3(r, v).to][v[2]]
        /\ ~E3(r, v).p => E2(r, v) = Zero
    BY Zenon DEF E2, Sub
  <1>8. E2(r, v) \in Entry /\ E2(r, v).to \in Frames
        /\ (E2(r, v).p => E3(r, v).p /\ level[E2(r, v).to] = 1)
    BY <1>2, <1>3, <1>6, <1>7, ZeroFacts
  <1>9. /\ E2(r, v).p => E1(r, v) = mem[E2(r, v).to][v[1]]
        /\ ~E2(r, v).p => E1(r, v) = Zero
    BY Zenon DEF E1, Sub
  <1>10. E1(r, v) \in Entry /\ (E1(r, v).p => E2(r, v).p)
    BY <1>2, <1>3, <1>8, <1>9, ZeroFacts
  <1> QED
    BY Zenon, <1>4, <1>5, <1>6, <1>7, <1>8, <1>9, <1>10

----------------------------------------------------------------------------
(* The invariant.                                                          *)

\* The tables on a walk are frames of the level they stand at.
LEMMA WalkTables ==
  ASSUME PtInv, NEW r \in Roots, NEW v \in VPages
  PROVE  /\ E4(r, v).p => E4(r, v).to \in Frames /\ level[E4(r, v).to] = 3
         /\ E3(r, v).p => E3(r, v).to \in Frames /\ level[E3(r, v).to] = 2
         /\ E2(r, v).p => E2(r, v).to \in Frames /\ level[E2(r, v).to] = 1
  BY Zenon, WalkFacts DEF Entry

\* A walk that comes to a table of pages went through the two above it.
LEMMA WalkDown ==
  ASSUME PtInv, NEW r \in Roots, NEW v \in VPages, E2(r, v).p
  PROVE  /\ E4(r, v).p /\ E4(r, v) = mem[r][v[4]] /\ E4(r, v).to \in Frames
         /\ level[E4(r, v).to] > 1 /\ level[E4(r, v).to] # 4
         /\ E3(r, v).p /\ E3(r, v) = mem[E4(r, v).to][v[3]] /\ E3(r, v).to \in Frames
         /\ level[E3(r, v).to] > 1 /\ level[E3(r, v).to] # 4
         /\ E2(r, v) = mem[E3(r, v).to][v[2]]
  BY WalkFacts, WalkTables

\* Before the first table is made the invariant holds.
LEMMA InitInv == Init => PtInv
  <1> SUFFICES ASSUME Init PROVE PtInv
    OBVIOUS
  <1>1. TypeOK
    <2>1. panic \in BOOLEAN
      BY Zenon DEF Init
    <2>2. level \in [Frames -> 0..4]
      BY DEF Init
    <2> QED
      BY Zenon, <2>1, <2>2, PageTableAssumption DEF Init, TypeOK
  <1>2. Roots = {} /\ users = {} /\ usertables = {} /\ lvl = 0 /\ \A f \in Frames : level[f] = 0
    BY Zenon DEF Init, Roots
  <1>3. \A f \in Frames, i \in Idx : ~Points(f, i)
    BY <1>2 DEF Points
  <1>4. Trees
    BY <1>1, <1>2, <1>3 DEF Trees, TypeOK
  <1>5. LegalRoots /\ UserTables /\ Walks
    BY Zenon, <1>2, <1>3 DEF LegalRoots, UserTables, Walks
  <1> QED
    BY Zenon, <1>1, <1>4, <1>5 DEF PtInv

\* As long as the tables stay, so does their shape, whatever other users of
\* the page allocator do.
LEMMA SameTrees ==
  ASSUME Trees, UNCHANGED <<mem, kernelpagetable, users, level>>,
         free' \subseteq {f \in Frames : level[f] = 0}
  PROVE  Trees'
  BY DEF Trees, Roots, Points

\* What the parts of the invariant depend on.
LEMMA UnchangedInv ==
  ASSUME PtInv, UNCHANGED <<mem, kernelpagetable, users, level, usertables>>,
         free' \subseteq {f \in Frames : level[f] = 0}, panic' \in BOOLEAN,
         UNCHANGED walkvars
  PROVE  PtInv'
  <1>1. TypeOK'
    BY Zenon DEF PtInv, TypeOK, walkvars
  <1>2. Trees'
    BY Zenon, SameTrees DEF PtInv
  <1>3. LegalRoots' /\ UserTables'
    BY Zenon DEF PtInv, LegalRoots, UserTables, Roots, Points
  <1>4. Walks'
    BY Zenon DEF PtInv, Walks, walkvars, Called, Legal, E4, E3, E2, Sub
  <1> QED
    BY Zenon, <1>1, <1>2, <1>3, <1>4 DEF PtInv

\* Out of frames: the boot stops with the tables as they are.
LEMMA NoFrameInv == PtInv /\ NoFrame => PtInv'
  <1> SUFFICES ASSUME PtInv, NoFrame PROVE PtInv'
    OBVIOUS
  <1>1. free' \subseteq {f \in Frames : level[f] = 0}
    BY Zenon DEF PtInv, TypeOK, Trees, NoFrame
  <1> QED
    BY Zenon, <1>1, UnchangedInv DEF NoFrame

\* pagetable_init makes a cleared root: the invariant holds.
LEMMA KernelTableInv == PtInv /\ pagetable_init => PtInv'
  <1> SUFFICES ASSUME PtInv, pagetable_init, ~NoFrame PROVE PtInv'
    BY Zenon, NoFrameInv
  <1>1. PICK f \in free :
          /\ mem' = [mem EXCEPT ![f] = Cleared]
          /\ free' = free \ {f}
          /\ kernelpagetable' = f
          /\ level' = [level EXCEPT ![f] = 4]
          /\ UNCHANGED <<users, walkvars, panic, usertables>>
    BY Zenon DEF pagetable_init
  <1>2. TypeOK /\ Trees /\ LegalRoots /\ UserTables /\ Walks /\ kernelpagetable = null
    BY Zenon DEF PtInv, pagetable_init
  <1>3. f \in Frames /\ level[f] = 0 /\ null \notin Frames
    BY <1>2, PageTableAssumption DEF TypeOK, Trees, null
  <1>4. users = {} /\ Roots = {} /\ Roots' = {f}
    BY Zenon, <1>1, <1>2, <1>3 DEF LegalRoots, Roots
  <1>5. Cleared \in [Idx -> Entry] /\ \A i \in Idx : ~Cleared[i].p
    BY Zenon, ZeroFacts DEF Cleared
  <1>6. TypeOK'
    <2>1. panic' \in BOOLEAN
      BY Zenon, <1>1, <1>2 DEF TypeOK
    <2>2. mem' \in [Frames -> [Idx -> Entry]] /\ level' \in [Frames -> 0..4]
      BY <1>1, <1>2, <1>3, <1>5 DEF TypeOK
    <2>3. users' = users /\ req' = req /\ lvl' = lvl /\ tbl' = tbl /\ usertables' = usertables
      BY Zenon, <1>1 DEF walkvars
    <2>4. free' \subseteq Frames /\ kernelpagetable' \in Frames
      BY Zenon, <1>1, <1>2, <1>3 DEF TypeOK
    <2> QED
      BY Zenon, <1>2, <2>1, <2>2, <2>3, <2>4 DEF TypeOK
  <1>7. \A g \in Frames, i \in Idx :
          /\ Points(g, i)' <=> Points(g, i)
          /\ Points(g, i) => /\ g # f /\ mem'[g][i] = mem[g][i] /\ mem[g][i].to \in Frames
                             /\ level[mem[g][i].to] = level[g] - 1 /\ level[g] > 1
                             /\ mem[g][i].to # f
    <2> SUFFICES ASSUME NEW g \in Frames, NEW i \in Idx
                 PROVE  /\ Points(g, i)' <=> Points(g, i)
                        /\ Points(g, i) => /\ g # f /\ mem'[g][i] = mem[g][i] /\ mem[g][i].to \in Frames
                                           /\ level[mem[g][i].to] = level[g] - 1 /\ level[g] > 1
                                           /\ mem[g][i].to # f
      OBVIOUS
    <2>1. CASE g = f
      <3>1. mem'[g][i] = Cleared[i] /\ level[g] = 0
        BY Zenon, <2>1, <1>1, <1>2, <1>3 DEF TypeOK
      <3> QED
        BY <3>1, <1>5 DEF Points
    <2>2. CASE g # f
      <3>1. mem'[g][i] = mem[g][i] /\ level'[g] = level[g] /\ level[g] \in 0..4
        BY Zenon, <2>2, <1>1, <1>2 DEF TypeOK
      <3>2. Points(g, i) => level[mem[g][i].to] = level[g] - 1 /\ level[g] > 1 /\ mem[g][i].to \in Frames
        BY Zenon, <1>2, EntryFacts DEF Trees, Points
      <3>3. Points(g, i)' <=> Points(g, i)
        BY Zenon, <3>1 DEF Points
      <3> QED
        BY <2>2, <3>1, <3>2, <3>3, <1>3
    <2> QED
      BY Zenon, <2>1, <2>2
  <1>8. \A g \in Frames : level'[g] = IF g = f THEN 4 ELSE level[g]
    BY Zenon, <1>1, <1>2, <1>3 DEF TypeOK
  <1>9. Trees'
    <2>1. \A g \in free' : level'[g] = 0
      BY Zenon, <1>1, <1>2, <1>8 DEF Trees, TypeOK
    <2>2. \A g \in Frames : g \in Roots' <=> level'[g] = 4
      BY Zenon, <1>2, <1>4, <1>8 DEF Trees
    <2>3. \A g \in Frames, i \in Idx : Points(g, i)' => level'[mem'[g][i].to] = level'[g] - 1
      BY <1>7, <1>8
    <2>4. \A g, h \in Frames, i, j \in Idx :
            Points(g, i)' /\ Points(h, j)' /\ mem'[g][i].to = mem'[h][j].to
            => i = j /\ (g = h \/ (level'[g] = 4 /\ level'[h] = 4 /\ i = HALF))
      BY <1>2, <1>7, <1>8 DEF Trees
    <2> QED
      BY Zenon, <2>1, <2>2, <2>3, <2>4 DEF Trees
  <1>10. LegalRoots'
    BY <1>1, <1>2, <1>3, <1>4, <1>5 DEF LegalRoots, TypeOK
  <1>11. UserTables'
    BY <1>1, <1>2, <1>3, <1>7, <1>8 DEF UserTables, TypeOK
  <1>12. lvl = 0
    BY Zenon, <1>2, <1>3, <1>4 DEF Walks, Called, TypeOK, Request
  <1> QED
    BY Zenon, <1>1, <1>6, <1>9, <1>10, <1>11, <1>12 DEF PtInv, Walks, walkvars

----------------------------------------------------------------------------
(* The walk of mmu_map_page.                                               *)

\* The index and the entry that the walk is at.
At == req.v[lvl]
Here == mem[tbl][At]

\* A walk that goes on is at a directory entry of the page it maps, and that
\* entry is the user's exactly when the page is.
LEMMA WalkNow ==
  ASSUME PtInv, lvl > 1
  PROVE  /\ lvl \in 2..4 /\ tbl \in Frames /\ level[tbl] = lvl /\ At \in Idx
         /\ req.root \in Roots /\ req.v \in VPages /\ req.us \in BOOLEAN
         /\ Called(req) /\ Legal(req.v)
         /\ lvl = 4 => /\ tbl = req.root /\ At = req.v[4] /\ E4(req.root, req.v) = Here
                       /\ At \in {0, HALF} /\ (At = HALF => tbl = kernelpagetable)
         /\ lvl = 3 => /\ E4(req.root, req.v).p /\ E4(req.root, req.v).to = tbl
                       /\ At = req.v[3] /\ E3(req.root, req.v) = Here
         /\ lvl = 2 => /\ E3(req.root, req.v).p /\ E3(req.root, req.v).to = tbl
                       /\ At = req.v[2] /\ E2(req.root, req.v) = Here
         /\ (tbl \in usertables \/ (tbl \in users /\ At = 0)) <=> req.us
  <1>1. TypeOK /\ Trees /\ LegalRoots /\ UserTables /\ Walks
    BY Zenon DEF PtInv
  <1>2. lvl \in 2..4 /\ tbl \in Frames /\ req.v \in VPages /\ req.us \in BOOLEAN /\ req.root \in Frames
    BY <1>1 DEF TypeOK, Request
  <1>3. Called(req) /\ Legal(req.v) /\ level[tbl] = lvl
    BY <1>1, <1>2 DEF Walks
  <1>4. req.v[2] \in Idx /\ req.v[3] \in Idx /\ req.v[4] \in Idx
    BY Zenon, <1>2, PageFacts
  <1>5. lvl = 2 \/ lvl = 3 \/ lvl = 4
    BY <1>2
  <1>6. At \in Idx
    BY Zenon, <1>4, <1>5 DEF At
  <1>7. req.root \in Roots
    BY <1>2, <1>3, PageTableAssumption DEF Called, Roots, null
  <1>8. lvl = 4 => /\ tbl = req.root /\ At = req.v[4] /\ E4(req.root, req.v) = Here
                   /\ At \in {0, HALF} /\ (At = HALF => tbl = kernelpagetable)
    <2> SUFFICES ASSUME lvl = 4
                 PROVE  /\ tbl = req.root /\ At = req.v[4] /\ E4(req.root, req.v) = Here
                        /\ At \in {0, HALF} /\ (At = HALF => tbl = kernelpagetable)
      OBVIOUS
    <2>1. tbl = req.root /\ At = req.v[4]
      BY <1>1 DEF Walks, At
    <2>2. E4(req.root, req.v) = Here
      BY Zenon, <2>1 DEF E4, Here
    <2>3. At \in {0, HALF} /\ (At = HALF => tbl = kernelpagetable)
      BY <2>1, <1>3, PageTableAssumption DEF Called, Legal
    <2> QED
      BY Zenon, <2>1, <2>2, <2>3
  <1>9. lvl = 3 => /\ E4(req.root, req.v).p /\ E4(req.root, req.v).to = tbl
                   /\ At = req.v[3] /\ E3(req.root, req.v) = Here
    BY <1>1 DEF Walks, At, Here, E3, Sub
  <1>10. lvl = 2 => /\ E3(req.root, req.v).p /\ E3(req.root, req.v).to = tbl
                    /\ At = req.v[2] /\ E2(req.root, req.v) = Here
    BY <1>1 DEF Walks, At, Here, E2, Sub
  <1>11. (tbl \in usertables \/ (tbl \in users /\ At = 0)) <=> req.us
    <2>1. CASE lvl = 4
      <3>1. tbl \notin usertables
        BY <2>1, <1>1, <1>3 DEF UserTables
      <3>2. tbl = req.root /\ At = req.v[4] /\ At \in {0, HALF} /\ kernelpagetable \notin users
        BY Zenon, <2>1, <1>8, <1>1 DEF LegalRoots
      <3> QED
        BY <3>1, <3>2, <1>3, PageTableAssumption DEF Called
    <2>2. CASE lvl < 4
      <3>1. tbl \in usertables <=> req.us
        BY <2>2, <1>1, <1>2 DEF Walks
      <3>2. tbl \notin users
        BY <2>2, <1>1, <1>2, <1>3 DEF Trees, Roots
      <3> QED
        BY Zenon, <3>1, <3>2
    <2> QED
      BY <2>1, <2>2, <1>2
  <1> QED
    BY Zenon, <1>2, <1>3, <1>6, <1>7, <1>8, <1>9, <1>10, <1>11

\* The three things pagetable_walk_getsubtable does.
Follow ==
  /\ Here.p /\ tbl' = Here.to /\ lvl' = lvl - 1
  /\ UNCHANGED <<mem, free, kernelpagetable, users, req, panic, level, usertables>>

NewTable(f) ==
  /\ ~Here.p
  /\ mem' = [mem EXCEPT ![f] = Cleared, ![tbl][At] = DirEntry(f)]
  /\ free' = free \ {f}
  /\ tbl' = f /\ lvl' = lvl - 1
  /\ level' = [level EXCEPT ![f] = lvl - 1]
  /\ usertables' = IF req.us THEN usertables \cup {f} ELSE usertables
  /\ UNCHANGED <<kernelpagetable, users, req, panic>>

\* A step of the walk follows an entry, finds no frame, or makes a table.
LEMMA WalkCases ==
  ASSUME pagetable_walk_getsubtable
  PROVE  lvl > 1 /\ (Follow \/ NoFrame \/ \E f \in free : NewTable(f))
  BY Zenon DEF pagetable_walk_getsubtable, Follow, NewTable, At, Here

\* Following an entry goes to a table of the level below.
LEMMA FollowInv ==
  ASSUME PtInv, lvl > 1, Follow
  PROVE  PtInv'
  <1>1. TypeOK /\ Trees /\ LegalRoots /\ UserTables /\ Walks
    BY Zenon DEF PtInv
  <1>2. /\ mem' = mem /\ free' = free /\ kernelpagetable' = kernelpagetable /\ users' = users
        /\ req' = req /\ panic' = panic /\ level' = level /\ usertables' = usertables
        /\ tbl' = Here.to /\ lvl' = lvl - 1 /\ Here.p
    BY Zenon DEF Follow
  <1>3. lvl \in 2..4 /\ tbl \in Frames /\ level[tbl] = lvl /\ At \in Idx
    BY Zenon, WalkNow
  <1>4. Here.to \in Frames /\ Points(tbl, At) /\ level[Here.to] = lvl - 1
    <2>1. Points(tbl, At)
      BY Zenon, <1>2, <1>3 DEF Points, Here
    <2> QED
      BY Zenon, <2>1, <1>1, <1>3, EntryFacts DEF Trees, Here
  <1>5. TypeOK'
    <2>1. panic' \in BOOLEAN
      BY Zenon, <1>1, <1>2 DEF TypeOK
    <2>2. lvl' \in 0..4 /\ tbl' \in Frames
      BY <1>2, <1>3, <1>4
    <2> QED
      BY Zenon, <1>1, <1>2, <2>1, <2>2 DEF TypeOK
  <1>6. Trees' /\ LegalRoots' /\ UserTables'
    BY <1>1, <1>2 DEF Trees, LegalRoots, UserTables, Roots, Points
  <1>7. Walks'
    <2>1. Called(req)' /\ Legal(req.v)'
      BY Zenon, <1>2, WalkNow DEF Called, Legal
    <2>2. Here.to \in usertables <=> req.us
      BY Zenon, <1>1, <1>3, <1>4, WalkNow DEF UserTables, Here
    <2>3. /\ lvl' \in 1..3 /\ level'[tbl'] = lvl'
      BY <1>2, <1>3, <1>4
    <2>4. /\ E4(req.root, req.v)' = E4(req.root, req.v)
          /\ E3(req.root, req.v)' = E3(req.root, req.v)
          /\ E2(req.root, req.v)' = E2(req.root, req.v)
      BY Zenon, <1>2 DEF E2, E3, E4, Sub
    <2>5. /\ lvl' = 3 => E4(req.root, req.v) = Here
          /\ lvl' = 2 => E3(req.root, req.v) = Here
          /\ lvl' = 1 => E2(req.root, req.v) = Here
      BY <1>2, <1>3, WalkNow
    <2>6. /\ lvl' = 3 => E4(req.root, req.v)'.p /\ E4(req.root, req.v)'.to = tbl'
          /\ lvl' = 2 => E3(req.root, req.v)'.p /\ E3(req.root, req.v)'.to = tbl'
          /\ lvl' = 1 => E2(req.root, req.v)'.p /\ E2(req.root, req.v)'.to = tbl'
      BY Zenon, <1>2, <2>4, <2>5
    <2> QED
      BY <1>2, <2>1, <2>2, <2>3, <2>4, <2>5, <2>6 DEF Walks
  <1> QED
    BY Zenon, <1>5, <1>6, <1>7 DEF PtInv

\* What a new table changes: one entry, and the frame it points to.
LEMMA NewTableFacts ==
  ASSUME PtInv, lvl > 1, NEW f \in free, NewTable(f)
  PROVE  /\ f \in Frames /\ level[f] = 0 /\ f # tbl /\ f \notin Roots /\ f \notin usertables
         /\ mem' \in [Frames -> [Idx -> Entry]] /\ level' \in [Frames -> 0..4]
         /\ \A g \in Frames, j \in Idx :
              mem'[g][j] = IF g = tbl /\ j = At THEN DirEntry(f)
                           ELSE IF g = f THEN Zero ELSE mem[g][j]
         /\ \A g \in Frames : level'[g] = IF g = f THEN lvl - 1 ELSE level[g]
         /\ \A g \in Frames, j \in Idx : Points(g, j)' <=> Points(g, j) \/ (g = tbl /\ j = At)
         /\ \A g \in Frames, j \in Idx :
              Points(g, j) => /\ ~(g = tbl /\ j = At) /\ g # f
                              /\ mem[g][j].to \in Frames /\ mem[g][j].to # f
                              /\ mem'[g][j] = mem[g][j] /\ level'[g] = level[g]
                              /\ level[g] > 1 /\ level[mem[g][j].to] = level[g] - 1
  <1>1. TypeOK /\ Trees /\ LegalRoots /\ UserTables
    BY Zenon DEF PtInv
  <1>2. lvl \in 2..4 /\ tbl \in Frames /\ level[tbl] = lvl /\ At \in Idx /\ req.us \in BOOLEAN
    BY Zenon, WalkNow
  <1>3. f \in Frames /\ level[f] = 0 /\ f # tbl /\ f \notin Roots /\ f \notin usertables
    BY <1>1, <1>2 DEF TypeOK, Trees, UserTables
  <1>4. Cleared \in [Idx -> Entry] /\ \A i \in Idx : Cleared[i] = Zero
    BY Zenon, ZeroFacts DEF Cleared
  <1>5. DirEntry(f) \in Entry /\ DirEntry(f).p /\ DirEntry(f).to = f /\ DirEntry(f).us = req.us
    BY Zenon, <1>2, <1>3 DEF DirEntry, Entry
  <1>6. mem' \in [Frames -> [Idx -> Entry]]
    <2>1. mem \in [Frames -> [Idx -> Entry]]
      BY Zenon, <1>1 DEF TypeOK
    <2> QED
      BY Zenon, <2>1, <1>2, <1>3, <1>4, <1>5 DEF NewTable
  <1>7. level' \in [Frames -> 0..4] /\ \A g \in Frames : level'[g] = IF g = f THEN lvl - 1 ELSE level[g]
    <2>1. level \in [Frames -> 0..4] /\ lvl - 1 \in 0..4
      BY <1>1, <1>2 DEF TypeOK
    <2> QED
      BY Zenon, <2>1, <1>3 DEF NewTable
  <1>8. \A g \in Frames, j \in Idx :
          mem'[g][j] = IF g = tbl /\ j = At THEN DirEntry(f)
                       ELSE IF g = f THEN Zero ELSE mem[g][j]
    <2>1. mem \in [Frames -> [Idx -> Entry]]
      BY Zenon, <1>1 DEF TypeOK
    <2> QED
      BY Zenon, <2>1, <1>2, <1>3, <1>4 DEF NewTable
  <1>9. \A g \in Frames, j \in Idx :
          Points(g, j) => /\ ~(g = tbl /\ j = At) /\ g # f
                          /\ mem[g][j].to \in Frames /\ mem[g][j].to # f
                          /\ mem'[g][j] = mem[g][j] /\ level'[g] = level[g]
                          /\ level[g] > 1 /\ level[mem[g][j].to] = level[g] - 1
    <2> SUFFICES ASSUME NEW g \in Frames, NEW j \in Idx, Points(g, j)
                 PROVE  /\ ~(g = tbl /\ j = At) /\ g # f
                        /\ mem[g][j].to \in Frames /\ mem[g][j].to # f
                        /\ mem'[g][j] = mem[g][j] /\ level'[g] = level[g]
                        /\ level[g] > 1 /\ level[mem[g][j].to] = level[g] - 1
      OBVIOUS
    <2>1. ~(g = tbl /\ j = At) /\ g # f
      BY <1>3 DEF Points, NewTable, Here
    <2>2. mem[g][j].to \in Frames /\ level[g] > 1 /\ level[mem[g][j].to] = level[g] - 1
      BY Zenon, <1>1, EntryFacts DEF Trees, Points
    <2> QED
      BY <2>1, <2>2, <1>3, <1>7, <1>8, <1>1 DEF TypeOK
  <1>10. \A g \in Frames, j \in Idx : Points(g, j)' <=> Points(g, j) \/ (g = tbl /\ j = At)
    <2> SUFFICES ASSUME NEW g \in Frames, NEW j \in Idx
                 PROVE  Points(g, j)' <=> Points(g, j) \/ (g = tbl /\ j = At)
      OBVIOUS
    <2>1. CASE g = tbl /\ j = At
      <3>1. mem'[g][j].p /\ level'[g] = lvl
        BY Zenon, <2>1, <1>2, <1>3, <1>5, <1>7, <1>8
      <3> QED
        BY Zenon, <2>1, <3>1, <1>2 DEF Points
    <2>2. CASE ~(g = tbl /\ j = At) /\ g = f
      <3>1. ~mem'[g][j].p /\ level[g] = 0
        BY Zenon, <2>2, <1>3, <1>8, ZeroFacts
      <3> QED
        BY <2>2, <3>1 DEF Points
    <2>3. CASE ~(g = tbl /\ j = At) /\ g # f
      <3>1. mem'[g][j] = mem[g][j] /\ level'[g] = level[g]
        BY Zenon, <2>3, <1>7, <1>8
      <3> QED
        BY Zenon, <2>3, <3>1 DEF Points
    <2> QED
      BY Zenon, <2>1, <2>2, <2>3
  <1> QED
    BY Zenon, <1>3, <1>6, <1>7, <1>8, <1>9, <1>10

\* A new table is linked below the one the walk is at.
LEMMA NewTableInv ==
  ASSUME PtInv, lvl > 1, NEW f \in free, NewTable(f)
  PROVE  PtInv'
  <1>1. TypeOK /\ Trees /\ LegalRoots /\ UserTables /\ Walks
    BY Zenon DEF PtInv
  <1>2. /\ free' = free \ {f} /\ kernelpagetable' = kernelpagetable /\ users' = users
        /\ req' = req /\ panic' = panic /\ tbl' = f /\ lvl' = lvl - 1 /\ ~Here.p
        /\ usertables' = IF req.us THEN usertables \cup {f} ELSE usertables
    BY Zenon DEF NewTable
  <1>3. lvl \in 2..4 /\ tbl \in Frames /\ level[tbl] = lvl /\ At \in Idx /\ req.us \in BOOLEAN
    BY Zenon, WalkNow
  <1>4. f \in Frames /\ level[f] = 0 /\ f # tbl /\ f \notin Roots /\ f \notin usertables /\ Roots' = Roots
    BY Zenon, <1>2, NewTableFacts DEF Roots
  <1>5. DirEntry(f).p /\ DirEntry(f).to = f /\ DirEntry(f).us = req.us
    BY Zenon DEF DirEntry
  <1>6. \A g \in Frames : level'[g] = IF g = f THEN lvl - 1 ELSE level[g]
    BY Zenon, NewTableFacts
  <1>7. mem'[tbl][At] = DirEntry(f)
    BY <1>3, NewTableFacts
  <1>8. TypeOK'
    <2>1. panic' \in BOOLEAN
      BY Zenon, <1>1, <1>2 DEF TypeOK
    <2>2. mem' \in [Frames -> [Idx -> Entry]] /\ level' \in [Frames -> 0..4]
      BY Zenon, NewTableFacts
    <2>3. lvl' \in 0..4 /\ tbl' \in Frames /\ req' \in Request /\ usertables' \subseteq Frames
      BY <1>1, <1>2, <1>3, <1>4 DEF TypeOK
    <2>4. free' \subseteq Frames /\ kernelpagetable' \in Frames \cup {null} /\ users' \subseteq Frames
      BY Zenon, <1>1, <1>2 DEF TypeOK
    <2> QED
      BY Zenon, <2>1, <2>2, <2>3, <2>4 DEF TypeOK
  <1>9. Trees'
    <2>1. \A g \in free' : level'[g] = 0
      BY Zenon, <1>1, <1>2, <1>6 DEF Trees, TypeOK
    <2>2. \A g \in Frames : g \in Roots' <=> level'[g] = 4
      BY <1>1, <1>3, <1>4, <1>6 DEF Trees
    <2>3. \A g \in Frames, i \in Idx : Points(g, i)' => level'[mem'[g][i].to] = level'[g] - 1
      <3> SUFFICES ASSUME NEW g \in Frames, NEW i \in Idx, Points(g, i)'
                   PROVE  level'[mem'[g][i].to] = level'[g] - 1
        OBVIOUS
      <3>1. CASE g = tbl /\ i = At
        BY <3>1, <1>3, <1>4, <1>5, <1>6, <1>7
      <3>2. CASE Points(g, i)
        BY <3>2, <1>6, NewTableFacts
      <3> QED
        BY <3>1, <3>2, NewTableFacts
    <2>4. \A g, h \in Frames, i, j \in Idx :
            Points(g, i)' /\ Points(h, j)' /\ mem'[g][i].to = mem'[h][j].to
            => i = j /\ (g = h \/ (level'[g] = 4 /\ level'[h] = 4 /\ i = HALF))
      <3> SUFFICES ASSUME NEW g \in Frames, NEW h \in Frames, NEW i \in Idx, NEW j \in Idx,
                          Points(g, i)', Points(h, j)', mem'[g][i].to = mem'[h][j].to
                   PROVE  i = j /\ (g = h \/ (level'[g] = 4 /\ level'[h] = 4 /\ i = HALF))
        OBVIOUS
      <3>1. \A a \in Frames, b \in Idx : Points(a, b)' => (Points(a, b) <=> mem'[a][b].to # f)
        BY <1>5, <1>7, NewTableFacts
      <3>2. CASE Points(g, i) /\ Points(h, j)
        <4>1. mem[g][i].to = mem[h][j].to /\ level'[g] = level[g] /\ level'[h] = level[h]
          BY <3>2, NewTableFacts
        <4> QED
          BY Zenon, <3>2, <4>1, <1>1 DEF Trees
      <3>3. CASE ~Points(g, i) /\ ~Points(h, j)
        BY <3>3, NewTableFacts
      <3> QED
        BY Zenon, <3>1, <3>2, <3>3
    <2> QED
      BY Zenon, <2>1, <2>2, <2>3, <2>4 DEF Trees
  <1>10. LegalRoots'
    <2>1. \A g \in Roots, i \in Idx : mem[g][i].p => mem'[g][i] = mem[g][i] /\ mem'[g][i].p
      BY NewTableFacts, RootFacts DEF Points
    <2>2. users # {} => /\ kernelpagetable \in Roots /\ mem[kernelpagetable][HALF].p /\ HALF \in Idx
      BY <1>1, PageTableAssumption DEF LegalRoots, Roots, Idx
    <2>3. \A u \in users : mem'[u][HALF] = mem'[kernelpagetable][HALF]
      BY Zenon, <2>1, <2>2, <1>1 DEF LegalRoots, Roots
    <2>4. \A r \in Roots', i \in Idx : mem'[r][i].p => i \in {0, HALF}
      <3> SUFFICES ASSUME NEW r \in Roots, NEW i \in Idx, mem'[r][i].p
                   PROVE  i \in {0, HALF}
        BY Zenon, <1>4
      <3>1. r \in Frames /\ level[r] = 4 /\ r # f
        BY Zenon, <1>4, RootFacts
      <3>2. CASE r = tbl /\ i = At
        BY Zenon, <3>1, <3>2, <1>3, WalkNow
      <3>3. CASE ~(r = tbl /\ i = At)
        <4>1. mem'[r][i] = mem[r][i]
          BY <3>1, <3>3, NewTableFacts
        <4> QED
          BY Zenon, <4>1, <1>1 DEF LegalRoots
      <3> QED
        BY Zenon, <3>2, <3>3
    <2> QED
      BY Zenon, <2>1, <2>2, <2>3, <2>4, <1>1, <1>2 DEF LegalRoots
  <1>11. UserTables'
    <2>1. \A g \in usertables' : level'[g] \in 1..3
      BY <1>1, <1>2, <1>3, <1>4, <1>6 DEF UserTables, TypeOK
    <2>2. \A g \in Frames : g # f => (g \in usertables' <=> g \in usertables)
      BY Zenon, <1>2
    <2>3. f \in usertables' <=> req.us
      BY Zenon, <1>2, <1>4
    <2>4. ASSUME NEW g \in Frames, NEW i \in Idx, Points(g, i)'
          PROVE  IF g \in usertables' \/ (g \in users' /\ i = 0)
                 THEN mem'[g][i].us /\ mem'[g][i].to \in usertables'
                 ELSE mem'[g][i].to \notin usertables'
      <3>1. CASE g = tbl /\ i = At
        <4>1. (g \in usertables' \/ (g \in users' /\ i = 0)) <=> req.us
          BY Zenon, <3>1, <2>2, <1>2, <1>4, WalkNow
        <4>2. mem'[g][i].us = req.us /\ mem'[g][i].to = f
          BY Zenon, <3>1, <1>5, <1>7
        <4> QED
          BY Zenon, <4>1, <4>2, <2>3
      <3>2. CASE Points(g, i)
        <4>1. g # f /\ mem[g][i].to \in Frames /\ mem[g][i].to # f /\ mem'[g][i] = mem[g][i]
          BY <3>2, NewTableFacts
        <4> QED
          BY Zenon, <3>2, <4>1, <2>2, <1>1, <1>2 DEF UserTables
      <3> QED
        BY Zenon, <3>1, <3>2, <2>4, NewTableFacts
    <2> QED
      BY Zenon, <2>1, <2>4 DEF UserTables
  <1>12. Walks'
    <2>1. Called(req)' /\ Legal(req.v)'
      BY Zenon, <1>2, WalkNow DEF Called, Legal
    <2>2. lvl' \in 1..3 /\ level'[tbl'] = lvl' /\ (tbl' \in usertables' <=> req.us)
      BY <1>2, <1>3, <1>4, <1>6
    <2>3. req.root \in Roots /\ req.v \in VPages /\ req.root \in Frames /\ level[req.root] = 4
          /\ req.v[2] \in Idx /\ req.v[3] \in Idx /\ req.v[4] \in Idx
      BY Zenon, WalkNow, RootFacts, PageFacts
    <2>4. lvl = 4 => E4(req.root, req.v)'.p /\ E4(req.root, req.v)'.to = f
      BY Zenon, <1>2, <1>5, <1>7, WalkNow DEF E4
    <2>5. E4(req.root, req.v).p => E4(req.root, req.v)' = E4(req.root, req.v)
      <3>1. E4(req.root, req.v).p => Points(req.root, req.v[4])
        BY <2>3 DEF E4, Points
      <3> QED
        BY <3>1, <2>3, <1>2, NewTableFacts DEF E4
    <2>6. lvl = 3 => E3(req.root, req.v)'.p /\ E3(req.root, req.v)'.to = f
      <3> SUFFICES ASSUME lvl = 3 PROVE E3(req.root, req.v)'.p /\ E3(req.root, req.v)'.to = f
        OBVIOUS
      <3>1. E4(req.root, req.v)'.p /\ E4(req.root, req.v)'.to = tbl /\ At = req.v[3]
        BY Zenon, <2>5, WalkNow
      <3>2. E3(req.root, req.v)' = mem'[tbl][At]
        BY Zenon, <3>1, <1>2 DEF E3, Sub
      <3> QED
        BY Zenon, <3>2, <1>5, <1>7
    <2>7. E3(req.root, req.v).p => E3(req.root, req.v)' = E3(req.root, req.v)
      <3> SUFFICES ASSUME E3(req.root, req.v).p
                   PROVE  E3(req.root, req.v)' = E3(req.root, req.v)
        OBVIOUS
      <3>1. E4(req.root, req.v).p /\ level[E4(req.root, req.v).to] = 3
            /\ E3(req.root, req.v) = mem[E4(req.root, req.v).to][req.v[3]]
        BY <2>3, WalkFacts
      <3>2. E4(req.root, req.v) = mem[req.root][req.v[4]] /\ E4(req.root, req.v).to \in Frames
        BY Zenon, <2>3, <1>1, EntryFacts DEF E4
      <3>3. Points(E4(req.root, req.v).to, req.v[3])
        BY <3>1 DEF Points
      <3>4. E3(req.root, req.v)' = mem'[E4(req.root, req.v).to][req.v[3]]
        BY Zenon, <3>1, <2>5, <1>2 DEF E3, Sub
      <3>5. \A g \in Frames, j \in Idx : Points(g, j) => mem'[g][j] = mem[g][j]
        BY NewTableFacts
      <3>6. mem'[E4(req.root, req.v).to][req.v[3]] = mem[E4(req.root, req.v).to][req.v[3]]
        BY Zenon, <3>2, <3>3, <3>5, <2>3
      <3> QED
        BY Zenon, <3>1, <3>4, <3>6
    <2>8. lvl = 2 => E2(req.root, req.v)'.p /\ E2(req.root, req.v)'.to = f
      <3> SUFFICES ASSUME lvl = 2 PROVE E2(req.root, req.v)'.p /\ E2(req.root, req.v)'.to = f
        OBVIOUS
      <3>1. E3(req.root, req.v)'.p /\ E3(req.root, req.v)'.to = tbl /\ At = req.v[2]
        BY Zenon, <2>7, WalkNow
      <3>2. E2(req.root, req.v)' = mem'[tbl][At]
        BY Zenon, <3>1, <1>2 DEF E2, Sub
      <3> QED
        BY Zenon, <3>2, <1>5, <1>7
    <2> QED
      BY <1>2, <1>3, <2>1, <2>2, <2>4, <2>6, <2>8 DEF Walks
  <1> QED
    BY Zenon, <1>8, <1>9, <1>10, <1>11, <1>12 DEF PtInv

\* Every step of the walk keeps the invariant.
LEMMA WalkInv == PtInv /\ pagetable_walk_getsubtable => PtInv'
  BY Zenon, WalkCases, FollowInv, NoFrameInv, NewTableInv

----------------------------------------------------------------------------
(* The other calls.                                                        *)

\* mmu_map_page starts a walk at the root it is given.
LEMMA MapPageInv ==
  ASSUME PtInv, NEW r \in Request, Called(r), mmu_map_page(r)
  PROVE  PtInv'
  <1>1. TypeOK /\ Trees /\ LegalRoots /\ UserTables
    BY Zenon DEF PtInv
  <1>2. UNCHANGED <<mem, free, kernelpagetable, users, level, usertables>>
    BY Zenon DEF mmu_map_page
  <1>3. free' \subseteq {f \in Frames : level[f] = 0}
    BY Zenon, <1>1, <1>2 DEF TypeOK, Trees
  <1>4. CASE ~Legal(r.v)
    BY Zenon, <1>2, <1>3, <1>4, UnchangedInv DEF mmu_map_page
  <1>5. CASE Legal(r.v)
    <2>1. req' = r /\ lvl' = 4 /\ tbl' = r.root /\ panic' = panic
      BY Zenon, <1>5 DEF mmu_map_page
    <2>2. r.root \in Frames /\ r.root \in Roots
      BY PageTableAssumption DEF Called, Request, Roots, null
    <2>3. level[r.root] = 4
      BY Zenon, <2>2, RootFacts
    <2>4. TypeOK'
      <3>1. panic' \in BOOLEAN
        BY Zenon, <1>1, <2>1 DEF TypeOK
      <3> QED
        BY <1>1, <1>2, <2>1, <2>2, <3>1 DEF TypeOK
    <2>5. Trees' /\ LegalRoots' /\ UserTables'
      <3>1. Trees'
        BY Zenon, <1>1, <1>2, <1>3, SameTrees
      <3>2. LegalRoots'
        BY Zenon, <1>1, <1>2 DEF LegalRoots, Roots
      <3>3. UserTables'
        BY Zenon, <1>1, <1>2 DEF UserTables, Points
      <3> QED
        BY Zenon, <3>1, <3>2, <3>3
    <2>6. Walks'
      BY <1>2, <1>5, <2>1, <2>3 DEF Walks, Called, Legal
    <2> QED
      BY Zenon, <2>4, <2>5, <2>6 DEF PtInv
  <1> QED
    BY Zenon, <1>4, <1>5

\* The end of the walk: a lvl1 table, of a page of VPages.
LEMMA PteNow ==
  ASSUME PtInv, lvl = 1
  PROVE  /\ tbl \in Frames /\ level[tbl] = 1 /\ tbl \notin Roots
         /\ req.root \in Frames /\ req.root \in Roots /\ req.v \in VPages /\ req.v[1] \in Idx
         /\ Mapping(req) \in Entry /\ req.us \in BOOLEAN
         /\ Called(req) /\ Legal(req.v) /\ (tbl \in usertables <=> req.us)
         /\ E2(req.root, req.v).p /\ E2(req.root, req.v).to = tbl
  <1>1. TypeOK /\ Trees /\ Walks
    BY Zenon DEF PtInv
  <1>2. /\ tbl \in Frames /\ req.v \in VPages /\ req.root \in Frames /\ req.to \in Frames
        /\ req.us \in BOOLEAN /\ req.dev \in BOOLEAN
    BY Zenon, <1>1 DEF TypeOK, Request
  <1>3. Mapping(req) \in Entry
    BY Zenon, <1>2 DEF Mapping, Entry
  <1>4. /\ Called(req) /\ Legal(req.v) /\ level[tbl] = 1 /\ (tbl \in usertables <=> req.us)
        /\ E2(req.root, req.v).p /\ E2(req.root, req.v).to = tbl
    BY <1>1 DEF Walks
  <1>5. req.root \in Roots
    BY <1>2, <1>4, PageTableAssumption DEF Called, Roots, null
  <1>6. tbl \notin Roots /\ req.v[1] \in Idx
    BY <1>1, <1>2, <1>4, PageFacts DEF Trees
  <1> QED
    BY Zenon, <1>2, <1>3, <1>4, <1>5, <1>6

\* The directories do not notice a new page.
LEMMA SetPteFacts ==
  ASSUME PtInv, mmu_set_pte
  PROVE  /\ mem' \in [Frames -> [Idx -> Entry]]
         /\ \A g \in Frames, j \in Idx :
              mem'[g][j] = IF g = tbl /\ j = req.v[1] THEN Mapping(req) ELSE mem[g][j]
         /\ \A g \in Frames, j \in Idx : level[g] # 1 => mem'[g][j] = mem[g][j]
         /\ \A g \in Frames, j \in Idx : Points(g, j)' <=> Points(g, j)
  <1>1. mem \in [Frames -> [Idx -> Entry]] /\ lvl = 1 /\ level' = level
        /\ mem' = [mem EXCEPT ![tbl][req.v[1]] = Mapping(req)]
    BY Zenon DEF PtInv, TypeOK, mmu_set_pte
  <1>2. tbl \in Frames /\ level[tbl] = 1 /\ req.v[1] \in Idx /\ Mapping(req) \in Entry
    BY Zenon, <1>1, PteNow
  <1>3. mem' \in [Frames -> [Idx -> Entry]]
    BY Zenon, <1>1, <1>2
  <1>4. \A g \in Frames, j \in Idx :
          mem'[g][j] = IF g = tbl /\ j = req.v[1] THEN Mapping(req) ELSE mem[g][j]
    BY Zenon, <1>1, <1>2
  <1>5. \A g \in Frames, j \in Idx : level[g] # 1 => mem'[g][j] = mem[g][j]
    BY Zenon, <1>2, <1>4
  <1>6. \A g \in Frames, j \in Idx : Points(g, j)' <=> Points(g, j)
    BY <1>1, <1>5 DEF Points
  <1> QED
    BY Zenon, <1>3, <1>4, <1>5, <1>6

\* mmu_set_pte writes the entry at the end of the walk, in a table of level 1.
LEMMA SetPteInv == PtInv /\ mmu_set_pte => PtInv'
  <1> SUFFICES ASSUME PtInv, mmu_set_pte PROVE PtInv'
    OBVIOUS
  <1>1. TypeOK /\ Trees /\ LegalRoots /\ UserTables
    BY Zenon DEF PtInv
  <1>2. /\ lvl' = 0 /\ free' = free /\ kernelpagetable' = kernelpagetable /\ users' = users
        /\ req' = req /\ tbl' = tbl /\ panic' = panic /\ level' = level /\ usertables' = usertables
        /\ Roots' = Roots
    BY Zenon DEF mmu_set_pte, Roots
  <1>3. TypeOK'
    <2>1. panic' \in BOOLEAN
      BY Zenon, <1>1, <1>2 DEF TypeOK
    <2>2. mem' \in [Frames -> [Idx -> Entry]] /\ lvl' \in 0..4
      BY <1>2, SetPteFacts
    <2> QED
      BY Zenon, <1>1, <1>2, <2>1, <2>2 DEF TypeOK
  <1>4. \A g \in Frames, j \in Idx :
          /\ Points(g, j)' <=> Points(g, j)
          /\ Points(g, j) => mem'[g][j] = mem[g][j]
    BY SetPteFacts DEF Points
  <1>5. \A r \in Roots, j \in Idx : mem'[r][j] = mem[r][j]
    BY SetPteFacts, RootFacts
  <1>6. Trees'
    BY <1>1, <1>2, <1>4 DEF Trees
  <1>7. LegalRoots'
    <2>1. HALF \in Idx /\ (users # {} => kernelpagetable \in Roots) /\ users \subseteq Roots
      BY <1>1, PageTableAssumption DEF LegalRoots, Roots, Idx
    <2> QED
      BY <2>1, <1>1, <1>2, <1>5 DEF LegalRoots
  <1>8. UserTables'
    BY Zenon, <1>1, <1>2, <1>4 DEF UserTables
  <1> QED
    BY Zenon, <1>2, <1>3, <1>6, <1>7, <1>8 DEF PtInv, Walks

\* A new lvl4 table shares the kernel half and has nothing else.
NewUser(f) ==
  /\ mem' = [mem EXCEPT ![f] = [i \in Idx |-> IF i >= HALF THEN mem[kernelpagetable][i] ELSE Zero]]
  /\ free' = free \ {f}
  /\ users' = users \cup {f}
  /\ level' = [level EXCEPT ![f] = 4]
  /\ UNCHANGED <<kernelpagetable, walkvars, panic, usertables>>

\* What a new user root is: a copy of the kernel's upper half in a frame that was free.
LEMMA NewUserFacts ==
  ASSUME PtInv, kernelpagetable # null, mem[kernelpagetable][HALF].p, NEW f \in free, NewUser(f)
  PROVE  /\ f \in Frames /\ level[f] = 0 /\ f \notin Roots /\ f \notin usertables
         /\ kernelpagetable \in Roots /\ kernelpagetable \in Frames /\ level[kernelpagetable] = 4
         /\ HALF \in Idx /\ HALF # 0 /\ Roots' = Roots \cup {f}
         /\ mem' \in [Frames -> [Idx -> Entry]] /\ level' \in [Frames -> 0..4]
         /\ \A g \in Frames : g # f => mem'[g] = mem[g]
         /\ mem'[f][HALF] = mem[kernelpagetable][HALF]
         /\ \A j \in Idx : mem'[f][j].p => j = HALF
         /\ \A g \in Frames : level'[g] = IF g = f THEN 4 ELSE level[g]
         /\ \A g \in Frames, j \in Idx : Points(g, j)' <=> Points(g, j) \/ (g = f /\ j = HALF)
         /\ \A g \in Frames, j \in Idx :
              Points(g, j) => /\ g # f /\ mem[g][j].to \in Frames /\ mem[g][j].to # f
                              /\ mem'[g][j] = mem[g][j] /\ level'[g] = level[g]
                              /\ level[g] > 1 /\ level[mem[g][j].to] = level[g] - 1
  <1>1. TypeOK /\ Trees /\ LegalRoots /\ UserTables
    BY Zenon DEF PtInv
  <1>2. f \in Frames /\ level[f] = 0 /\ f \notin Roots /\ f \notin usertables
    <2>1. f \in Frames
      BY Zenon, <1>1 DEF TypeOK
    <2>2. level[f] = 0
      BY Zenon, <1>1 DEF Trees
    <2>3. f \notin Roots
      BY <1>1, <2>1, <2>2 DEF Trees
    <2>4. f \notin usertables
      BY <1>1, <2>2 DEF UserTables
    <2> QED
      BY Zenon, <2>1, <2>2, <2>3, <2>4
  <1>3. /\ kernelpagetable \in Roots /\ kernelpagetable \in Frames /\ level[kernelpagetable] = 4
        /\ kernelpagetable # f
    <2>1. kernelpagetable \in Roots
      BY Zenon DEF Roots
    <2> QED
      BY Zenon, <2>1, <1>2, RootFacts
  <1>4. HALF \in Idx /\ HALF # 0 /\ HALF \in Nat /\ Idx \subseteq Nat
    BY PageTableAssumption DEF Idx
  <1>5. mem \in [Frames -> [Idx -> Entry]] /\ level \in [Frames -> 0..4]
    BY Zenon, <1>1 DEF TypeOK
  <1>6. [i \in Idx |-> IF i >= HALF THEN mem[kernelpagetable][i] ELSE Zero] \in [Idx -> Entry]
    BY Zenon, <1>3, <1>5, ZeroFacts
  <1>7. mem' \in [Frames -> [Idx -> Entry]] /\ level' \in [Frames -> 0..4]
    BY <1>2, <1>5, <1>6 DEF NewUser
  <1>8. /\ \A g \in Frames : g # f => mem'[g] = mem[g]
        /\ \A g \in Frames : level'[g] = IF g = f THEN 4 ELSE level[g]
    BY Zenon, <1>2, <1>5 DEF NewUser
  <1>9. \A j \in Idx : mem'[f][j] = IF j >= HALF THEN mem[kernelpagetable][j] ELSE Zero
    BY Zenon, <1>2, <1>5 DEF NewUser
  <1>10. \A j \in Idx : mem[kernelpagetable][j].p => j \in {0, HALF}
    BY Zenon, <1>1, <1>3 DEF LegalRoots
  <1>11. /\ mem'[f][HALF] = mem[kernelpagetable][HALF]
         /\ \A j \in Idx : mem'[f][j].p => j = HALF
    <2>1. HALF >= HALF
      BY <1>4
    <2>2. ASSUME NEW j \in Idx, mem'[f][j].p PROVE j = HALF
      <3>1. j >= HALF /\ mem[kernelpagetable][j].p
        BY Zenon, <2>2, <1>9, ZeroFacts
      <3> QED
        BY <3>1, <1>4, <1>10
    <2> QED
      BY Zenon, <2>1, <2>2, <1>4, <1>9
  <1>12. Roots' = Roots \cup {f}
    BY Zenon DEF NewUser, Roots
  <1>13. \A g \in Frames, j \in Idx :
           Points(g, j) => /\ g # f /\ mem[g][j].to \in Frames /\ mem[g][j].to # f
                           /\ mem'[g][j] = mem[g][j] /\ level'[g] = level[g]
                           /\ level[g] > 1 /\ level[mem[g][j].to] = level[g] - 1
    <2> SUFFICES ASSUME NEW g \in Frames, NEW j \in Idx, Points(g, j)
                 PROVE  /\ g # f /\ mem[g][j].to \in Frames /\ mem[g][j].to # f
                        /\ mem'[g][j] = mem[g][j] /\ level'[g] = level[g]
                        /\ level[g] > 1 /\ level[mem[g][j].to] = level[g] - 1
      OBVIOUS
    <2>1. g # f /\ level[g] > 1
      BY <1>2 DEF Points
    <2>2. mem[g][j].to \in Frames /\ level[mem[g][j].to] = level[g] - 1
      BY <1>1, EntryFacts DEF Trees
    <2> QED
      BY <2>1, <2>2, <1>2, <1>5, <1>8
  <1>14. \A g \in Frames, j \in Idx : Points(g, j)' <=> Points(g, j) \/ (g = f /\ j = HALF)
    <2> SUFFICES ASSUME NEW g \in Frames, NEW j \in Idx
                 PROVE  Points(g, j)' <=> Points(g, j) \/ (g = f /\ j = HALF)
      OBVIOUS
    <2>1. CASE g = f
      <3>1. level'[f] = 4 /\ ~Points(f, j)
        BY <1>2, <1>8 DEF Points
      <3>2. mem'[f][j].p <=> j = HALF
        BY Zenon, <1>11
      <3> QED
        BY <2>1, <3>1, <3>2 DEF Points
    <2>2. CASE g # f
      <3>1. mem'[g] = mem[g] /\ level'[g] = level[g]
        BY Zenon, <2>2, <1>8
      <3> QED
        BY Zenon, <2>2, <3>1 DEF Points
    <2> QED
      BY Zenon, <2>1, <2>2
  <1> QED
    BY Zenon, <1>2, <1>3, <1>4, <1>7, <1>8, <1>11, <1>12, <1>13, <1>14

\* A new user address space keeps the invariant.
LEMMA CreateUserInv == PtInv /\ CreateUser => PtInv'
  <1> SUFFICES ASSUME PtInv, CreateUser, ~NoFrame PROVE PtInv'
    BY Zenon, NoFrameInv
  <1>1. PICK f \in free : NewUser(f)
    BY Zenon DEF CreateUser, mmu_init_user_pagetable, NewUser
  <1>2. TypeOK /\ Trees /\ LegalRoots /\ UserTables
    BY Zenon DEF PtInv
  <1>3. kernelpagetable # null /\ mem[kernelpagetable][HALF].p /\ lvl = 0
    BY Zenon DEF CreateUser, mmu_init_user_pagetable
  <1>4. /\ free' = free \ {f} /\ users' = users \cup {f} /\ kernelpagetable' = kernelpagetable
        /\ req' = req /\ lvl' = lvl /\ tbl' = tbl /\ panic' = panic /\ usertables' = usertables
    BY Zenon, <1>1 DEF NewUser, walkvars
  <1>5. /\ f \in Frames /\ level[f] = 0 /\ f \notin Roots /\ f \notin usertables
        /\ kernelpagetable \in Roots /\ kernelpagetable \in Frames /\ level[kernelpagetable] = 4
        /\ HALF \in Idx /\ HALF # 0 /\ Roots' = Roots \cup {f}
        /\ \A g \in Frames : level'[g] = IF g = f THEN 4 ELSE level[g]
    BY Zenon, <1>1, <1>3, NewUserFacts
  <1>6. mem'[f][HALF] = mem[kernelpagetable][HALF] /\ kernelpagetable # f
    BY Zenon, <1>1, <1>3, <1>5, NewUserFacts
  <1>7. Points(kernelpagetable, HALF)
    BY <1>3, <1>5 DEF Points
  <1>8. TypeOK'
    <2>1. panic' \in BOOLEAN
      BY Zenon, <1>2, <1>4 DEF TypeOK
    <2>2. mem' \in [Frames -> [Idx -> Entry]] /\ level' \in [Frames -> 0..4]
      BY Zenon, <1>1, <1>3, NewUserFacts
    <2>3. free' \subseteq Frames /\ users' \subseteq Frames
      BY Zenon, <1>2, <1>4, <1>5 DEF TypeOK
    <2> QED
      BY Zenon, <1>2, <1>4, <2>1, <2>2, <2>3 DEF TypeOK
  <1>9. \A g \in Frames, j \in Idx : Points(g, j)' <=> Points(g, j) \/ (g = f /\ j = HALF)
    BY Zenon, <1>1, <1>3, NewUserFacts
  <1>10. \A g \in Frames, j \in Idx :
           Points(g, j) => /\ g # f /\ mem[g][j].to \in Frames /\ mem[g][j].to # f
                           /\ mem'[g][j] = mem[g][j] /\ level'[g] = level[g]
                           /\ level[g] > 1 /\ level[mem[g][j].to] = level[g] - 1
    BY Zenon, <1>1, <1>3, NewUserFacts
  <1>11. Trees'
    <2>1. \A g \in free' : level'[g] = 0
      BY Zenon, <1>2, <1>4, <1>5 DEF Trees, TypeOK
    <2>2. \A g \in Frames : g \in Roots' <=> level'[g] = 4
      BY Zenon, <1>2, <1>5 DEF Trees
    <2>3. \A g \in Frames, i \in Idx : Points(g, i)' => level'[mem'[g][i].to] = level'[g] - 1
      BY <1>5, <1>6, <1>7, <1>9, <1>10
    <2>4. \A g, h \in Frames, i, j \in Idx :
            Points(g, i)' /\ Points(h, j)' /\ mem'[g][i].to = mem'[h][j].to
            => i = j /\ (g = h \/ (level'[g] = 4 /\ level'[h] = 4 /\ i = HALF))
      <3> SUFFICES ASSUME NEW g \in Frames, NEW h \in Frames, NEW i \in Idx, NEW j \in Idx,
                          Points(g, i)', Points(h, j)', mem'[g][i].to = mem'[h][j].to
                   PROVE  i = j /\ (g = h \/ (level'[g] = 4 /\ level'[h] = 4 /\ i = HALF))
        OBVIOUS
      <3> DEFINE old(a) == IF a = f THEN kernelpagetable ELSE a
      <3>1. \A a \in Frames, b \in Idx :
              Points(a, b)' => /\ old(a) \in Frames /\ Points(old(a), b)
                               /\ mem'[a][b].to = mem[old(a)][b].to
                               /\ level'[a] = level[old(a)] /\ (a = f => b = HALF)
        <4> SUFFICES ASSUME NEW a \in Frames, NEW b \in Idx, Points(a, b)'
                     PROVE  /\ old(a) \in Frames /\ Points(old(a), b)
                            /\ mem'[a][b].to = mem[old(a)][b].to
                            /\ level'[a] = level[old(a)] /\ (a = f => b = HALF)
          OBVIOUS
        <4>1. CASE a = f
          <5>1. b = HALF
            BY Zenon, <1>9, <1>10, <4>1
          <5>2. old(a) = kernelpagetable /\ level'[a] = 4
            BY Zenon, <1>5, <4>1
          <5> HIDE DEF old
          <5> QED
            BY Zenon, <1>5, <1>6, <1>7, <4>1, <5>1, <5>2
        <4>2. CASE a # f
          <5>1. Points(a, b)
            BY Zenon, <1>9, <4>2
          <5>2. old(a) = a
            BY Zenon, <4>2
          <5> HIDE DEF old
          <5> QED
            BY <1>10, <4>2, <5>1, <5>2
        <4> QED
          BY Zenon, <4>1, <4>2
      <3>2. i = j /\ (old(g) = old(h) \/ (level[old(g)] = 4 /\ level[old(h)] = 4 /\ i = HALF))
        <4> HIDE DEF old
        <4>1. old(g) \in Frames /\ Points(old(g), i) /\ mem'[g][i].to = mem[old(g)][i].to
          BY Zenon, <3>1
        <4>2. old(h) \in Frames /\ Points(old(h), j) /\ mem'[h][j].to = mem[old(h)][j].to
          BY Zenon, <3>1
        <4>3. mem[old(g)][i].to = mem[old(h)][j].to
          BY Zenon, <4>1, <4>2
        <4> QED
          BY <4>1, <4>2, <4>3, <1>2 DEF Trees
      <3> QED
        BY <3>1, <3>2, <1>5
    <2> QED
      BY Zenon, <2>1, <2>2, <2>3, <2>4 DEF Trees
  <1>12. LegalRoots'
    <2>1. \A g \in Roots, j \in Idx : mem'[g][j] = mem[g][j]
      <3>1. \A g \in Roots : g \in Frames /\ g # f
        BY Zenon, <1>5, RootFacts
      <3> QED
        BY Zenon, <3>1, <1>1, <1>3, NewUserFacts
    <2>2. \A j \in Idx : mem'[f][j].p => j = HALF
      BY Zenon, <1>1, <1>3, NewUserFacts
    <2>3. users \subseteq Roots
      BY Zenon DEF Roots
    <2>4. kernelpagetable' \notin users' /\ mem'[kernelpagetable'][HALF].p
      BY Zenon, <1>2, <1>3, <1>4, <1>5, <1>6, <2>1 DEF LegalRoots
    <2>5. \A u \in users' : mem'[u][HALF] = mem'[kernelpagetable'][HALF]
      BY <1>2, <1>4, <1>5, <1>6, <2>1, <2>3 DEF LegalRoots
    <2>6. \A r \in Roots', i \in Idx : mem'[r][i].p => i \in {0, HALF}
      BY <1>2, <1>5, <2>1, <2>2 DEF LegalRoots
    <2> QED
      BY Zenon, <1>3, <1>4, <2>4, <2>5, <2>6 DEF LegalRoots
  <1>13. UserTables'
    <2>1. \A g \in usertables' : level'[g] \in 1..3
      BY <1>2, <1>4, <1>5 DEF UserTables, TypeOK
    <2>2. kernelpagetable \notin usertables /\ kernelpagetable \notin users
      BY <1>2, <1>5 DEF UserTables, LegalRoots
    <2>3. mem'[f][HALF].to \notin usertables
      BY Zenon, <1>2, <1>5, <1>6, <1>7, <2>2 DEF UserTables
    <2>4. ASSUME NEW g \in Frames, NEW i \in Idx, Points(g, i)'
          PROVE  IF g \in usertables' \/ (g \in users' /\ i = 0)
                 THEN mem'[g][i].us /\ mem'[g][i].to \in usertables'
                 ELSE mem'[g][i].to \notin usertables'
      <3>1. CASE g = f /\ i = HALF
        BY Zenon, <3>1, <2>3, <1>4, <1>5
      <3>2. CASE Points(g, i)
        <4>1. g # f /\ mem'[g][i] = mem[g][i]
          BY Zenon, <3>2, <1>10
        <4> QED
          BY Zenon, <3>2, <4>1, <1>2, <1>4 DEF UserTables
      <3> QED
        BY Zenon, <3>1, <3>2, <2>4, <1>9
    <2> QED
      BY Zenon, <2>1, <2>4 DEF UserTables
  <1> QED
    BY Zenon, <1>3, <1>4, <1>8, <1>11, <1>12, <1>13 DEF PtInv, Walks

\* Frames that others take are not tables.
LEMMA OthersInv == PtInv /\ OthersAllocate => PtInv'
  <1> SUFFICES ASSUME PtInv, OthersAllocate PROVE PtInv'
    OBVIOUS
  <1>1. panic' \in BOOLEAN
    BY Zenon DEF OthersAllocate, PtInv, TypeOK
  <1> QED
    BY Zenon, <1>1, UnchangedInv DEF OthersAllocate

\* A step that changes nothing keeps the invariant.
LEMMA StutterInv == PtInv /\ UNCHANGED ptvars => PtInv'
  <1> SUFFICES ASSUME PtInv, UNCHANGED ptvars PROVE PtInv'
    OBVIOUS
  <1>1. panic' \in BOOLEAN
    BY Zenon DEF ptvars, PtInv, TypeOK
  <1>2. free' \subseteq {f \in Frames : level[f] = 0}
    BY Zenon DEF ptvars, PtInv, TypeOK, Trees
  <1> QED
    BY Zenon, <1>1, <1>2, UnchangedInv DEF ptvars, walkvars

\* Whatever frames the page allocator hands out and whichever pages are
\* mapped, the tables of mmu.c and pagetable.c are trees that share the kernel
\* half, and the user flag is on the user half of processes and nowhere else,
\* at every step of every walk.
THEOREM Inductive == Spec => []PtInv
  <1>1. Init => PtInv
    BY Zenon, InitInv
  <1>2. PtInv /\ [Next]_ptvars => PtInv'
    BY Zenon, KernelTableInv, MapPageInv, WalkInv, SetPteInv, CreateUserInv, OthersInv, StutterInv
    DEF Next
  <1> QED
    BY <1>1, <1>2, PTL DEF Spec

----------------------------------------------------------------------------
(* The tables implement AddressSpaces *)

\* A walk that finds the same entries gives the same mapping.
LEMMA SameEntries ==
  ASSUME NEW r, NEW d, NEW v, E1(d, v)' = E1(r, v),
         E1(r, v).p => /\ E4(d, v)' = E4(r, v) /\ E3(d, v)' = E3(r, v) /\ E2(d, v)' = E2(r, v)
  PROVE  Translate(d, v)' = Translate(r, v)
  <1>1. CASE E1(r, v).p
    BY Zenon, <1>1 DEF Translate
  <1>2. CASE ~E1(r, v).p
    BY Zenon, <1>2 DEF Translate, Zero
  <1> QED
    BY Zenon, <1>1, <1>2

\* A frame that no table uses may be filled without effect on the walks.
LEMMA SameWalk ==
  ASSUME PtInv, NEW f \in Frames, level[f] = 0,
         \A g \in Frames : g # f => mem'[g] = mem[g],
         NEW r \in Roots, NEW d, NEW v \in VPages, mem'[d][v[4]] = mem[r][v[4]]
  PROVE  Translate(d, v)' = Translate(r, v)
  <1>1. E4(d, v)' = E4(r, v)
    BY Zenon DEF E4
  <1>2. E4(r, v) \in Entry /\ E3(r, v) \in Entry /\ E2(r, v) \in Entry
    BY Zenon, WalkFacts
  <1>3. /\ E4(r, v).p => E4(r, v).to \in Frames /\ E4(r, v).to # f
        /\ E3(r, v).p => E3(r, v).to \in Frames /\ E3(r, v).to # f
        /\ E2(r, v).p => E2(r, v).to \in Frames /\ E2(r, v).to # f
    BY WalkTables
  <1>4. E3(d, v)' = E3(r, v)
    BY Zenon, <1>1, <1>3 DEF E3, Sub, Zero
  <1>5. E2(d, v)' = E2(r, v)
    BY <1>4, <1>3 DEF E2, Sub, Zero
  <1>6. E1(d, v)' = E1(r, v)
    BY Zenon, <1>5, <1>3 DEF E1, Sub, Zero
  <1> QED
    BY Zenon, <1>1, <1>4, <1>5, <1>6, SameEntries

\* A walk that stops at the lvl4 table finds nothing.
LEMMA EmptyRoot ==
  ASSUME NEW d, NEW v, ~(mem'[d][v[4]].p)
  PROVE  Translate(d, v)' = Zero
  <1>1. ~(E4(d, v)'.p)
    BY Zenon DEF E4
  <1>2. E3(d, v)' = Zero /\ ~(E3(d, v)'.p)
    BY Zenon, <1>1 DEF E3, Sub, Zero
  <1>3. E2(d, v)' = Zero /\ ~(E2(d, v)'.p)
    BY Zenon, <1>2 DEF E2, Sub, Zero
  <1>4. E1(d, v)' = Zero /\ ~(E1(d, v)'.p)
    BY Zenon, <1>3 DEF E1, Sub, Zero
  <1> QED
    BY Zenon, <1>4 DEF Translate, Zero

\* A new table below a directory is empty: a walk through the new entry finds
\* nothing, as it did before.  e and d are the entries an old and a new walk
\* see, n and m the ones they see next; they are the same, or the new one leads
\* to the new table.
SameOrNew(f, e, d) == d = e \/ (~e.p /\ (d.p => d.to = f))

WalksOn(f, e, d, i, n, m) ==
  /\ e \in Entry /\ i \in Idx /\ (e.p => e.to # f) /\ SameOrNew(f, e, d)
  /\ n = IF e.p THEN mem[e.to][i] ELSE Zero
  /\ m = IF d.p THEN mem'[d.to][i] ELSE Zero

\* Where a walk goes on through the entry it came by, a new table changes nothing
\* but the empty entry it replaces.
LEMMA NewTableStep ==
  ASSUME PtInv, lvl > 1, NEW f \in free, NewTable(f),
         NEW e, NEW d, NEW i, NEW n, NEW m, WalksOn(f, e, d, i, n, m)
  PROVE  /\ SameOrNew(f, n, m)
         /\ (e.p => level[e.to] = 1) => m = n
  <1> USE DEF WalksOn, SameOrNew
  <1>1. lvl \in 2..4 /\ level[tbl] = lvl /\ At \in Idx
    BY Zenon, WalkNow
  <1>2. f \in Frames /\ f # tbl /\ \A g \in Frames, j \in Idx :
          mem'[g][j] = IF g = tbl /\ j = At THEN DirEntry(f)
                       ELSE IF g = f THEN Zero ELSE mem[g][j]
    BY Zenon, NewTableFacts
  <1>3. ~Here.p /\ Here = mem[tbl][At] /\ DirEntry(f).to = f
    BY Zenon DEF NewTable, Here, DirEntry
  <1>4. CASE e.p
    <2>1. d = e /\ e.to \in Frames /\ e.to # f
      BY Zenon, <1>4 DEF Entry
    <2>2. CASE e.to = tbl /\ i = At
      <3>1. ~mem[e.to][i].p /\ mem'[e.to][i].to = f /\ level[e.to] # 1
        BY <2>1, <2>2, <1>1, <1>2, <1>3
      <3> QED
        BY Zenon, <1>4, <2>1, <3>1
    <2>3. CASE ~(e.to = tbl /\ i = At)
      <3>1. mem'[e.to][i] = mem[e.to][i]
        BY Zenon, <2>1, <2>3, <1>2
      <3> QED
        BY Zenon, <1>4, <2>1, <3>1
    <2> QED
      BY Zenon, <2>2, <2>3
  <1>5. CASE ~e.p
    <2>1. CASE d.p
      <3>1. d.to = f /\ mem'[d.to][i] = Zero
        BY Zenon, <1>2, <1>5, <2>1
      <3> QED
        BY Zenon, <1>5, <2>1, <3>1
    <2>2. CASE ~d.p
      BY Zenon, <1>5, <2>2
    <2> QED
      BY Zenon, <2>1, <2>2
  <1> QED
    BY Zenon, <1>4, <1>5

\* Below the directories, in the tables of pages, the two walks see the same.
LEMMA NewTableEnd ==
  ASSUME PtInv, lvl > 1, NEW f \in free, NewTable(f),
         NEW e, NEW d, NEW i, NEW n, NEW m, WalksOn(f, e, d, i, n, m), e.p => level[e.to] = 1
  PROVE  m = n
  BY NewTableStep

\* Adding a table below a directory changes no mapping.
LEMMA NewTableSame ==
  ASSUME PtInv, lvl > 1, NEW f \in free, NewTable(f), NEW r \in Roots, NEW v \in VPages
  PROVE  Translate(r, v)' = Translate(r, v)
  <1>1. E4(r, v) \in Entry /\ E3(r, v) \in Entry /\ E2(r, v) \in Entry /\ E1(r, v) \in Entry
    BY Zenon, WalkFacts
  <1>2. f \in Frames /\ level[f] = 0 /\ r \in Frames /\ level[r] = 4
        /\ v[1] \in Idx /\ v[2] \in Idx /\ v[3] \in Idx /\ v[4] \in Idx
    BY Zenon, NewTableFacts, RootFacts, PageFacts
  <1>3. /\ E4(r, v).p => E4(r, v).to # f
        /\ E3(r, v).p => E3(r, v).to # f
        /\ E2(r, v).p => E2(r, v).to # f /\ level[E2(r, v).to] = 1
    BY <1>2, WalkTables
  <1>4. SameOrNew(f, E4(r, v), E4(r, v)')
    <2>1. ~Here.p /\ Here = mem[tbl][At] /\ DirEntry(f).to = f
      BY Zenon DEF NewTable, Here, DirEntry
    <2>2. mem'[r][v[4]] = mem[r][v[4]] \/ (~mem[r][v[4]].p /\ mem'[r][v[4]].to = f)
      <3>1. r # f
        BY <1>2
      <3>2. mem'[r][v[4]] = IF r = tbl /\ v[4] = At THEN DirEntry(f) ELSE mem[r][v[4]]
        <4>1. \A g \in Frames, j \in Idx :
                mem'[g][j] = IF g = tbl /\ j = At THEN DirEntry(f)
                             ELSE IF g = f THEN Zero ELSE mem[g][j]
          BY Zenon, NewTableFacts
        <4> QED
          BY <1>2, <3>1, <4>1
      <3> QED
        BY Zenon, <2>1, <3>2
    <2> QED
      BY Zenon, <2>2 DEF E4, SameOrNew
  <1>5. SameOrNew(f, E3(r, v), E3(r, v)')
    <2>1. E3(r, v) = IF E4(r, v).p THEN mem[E4(r, v).to][v[3]] ELSE Zero
      BY Zenon DEF E3, Sub
    <2>2. E3(r, v)' = IF E4(r, v)'.p THEN mem'[E4(r, v)'.to][v[3]] ELSE Zero
      BY Zenon DEF E3, Sub, Zero
    <2>3. WalksOn(f, E4(r, v), E4(r, v)', v[3], E3(r, v), E3(r, v)')
      BY Zenon, <1>1, <1>2, <1>3, <1>4, <2>1, <2>2 DEF WalksOn
    <2> QED
      BY Zenon, <2>3, NewTableStep
  <1>6. SameOrNew(f, E2(r, v), E2(r, v)')
    <2>1. E2(r, v) = IF E3(r, v).p THEN mem[E3(r, v).to][v[2]] ELSE Zero
      BY Zenon DEF E2, Sub
    <2>2. E2(r, v)' = IF E3(r, v)'.p THEN mem'[E3(r, v)'.to][v[2]] ELSE Zero
      BY Zenon DEF E2, Sub, Zero
    <2>3. WalksOn(f, E3(r, v), E3(r, v)', v[2], E2(r, v), E2(r, v)')
      BY Zenon, <1>1, <1>2, <1>3, <1>5, <2>1, <2>2 DEF WalksOn
    <2> QED
      BY Zenon, <2>3, NewTableStep
  <1>7. E1(r, v)' = E1(r, v)
    <2>1. E1(r, v) = IF E2(r, v).p THEN mem[E2(r, v).to][v[1]] ELSE Zero
      BY Zenon DEF E1, Sub
    <2>2. E1(r, v)' = IF E2(r, v)'.p THEN mem'[E2(r, v)'.to][v[1]] ELSE Zero
      BY Zenon DEF E1, Sub, Zero
    <2>3. WalksOn(f, E2(r, v), E2(r, v)', v[1], E1(r, v), E1(r, v)')
      BY Zenon, <1>1, <1>2, <1>3, <1>6, <2>1, <2>2 DEF WalksOn
    <2>4. E2(r, v).p => level[E2(r, v).to] = 1
      BY Zenon, <1>3
    <2> QED
      BY Zenon, <2>3, <2>4, NewTableEnd
  <1>8. E1(r, v).p => E4(r, v).p /\ E3(r, v).p /\ E2(r, v).p
    BY Zenon, WalkFacts
  <1>9. E1(r, v).p => /\ E4(r, v)' = E4(r, v) /\ E3(r, v)' = E3(r, v) /\ E2(r, v)' = E2(r, v)
    BY Zenon, <1>4, <1>5, <1>6, <1>8 DEF SameOrNew
  <1> QED
    BY Zenon, <1>7, <1>9, SameEntries

\* mmu_set_pte writes the entry of the page it was asked for, which other
\* address spaces see only in the kernel half.
LEMMA PteOwner ==
  ASSUME PtInv, lvl = 1, NEW r \in Roots, NEW v \in VPages
  PROVE  (E2(r, v).p /\ E2(r, v).to = tbl /\ v[1] = req.v[1])
         <=> (v = req.v /\ (r = req.root \/ v[4] = HALF))
  <1> DEFINE w == req.v
             q == req.root
  <1>1. TypeOK /\ Trees /\ LegalRoots
    BY Zenon DEF PtInv
  <1>2. q \in Roots /\ q \in Frames /\ w \in VPages /\ E2(q, w).p /\ E2(q, w).to = tbl
    BY Zenon, PteNow
  <1>3. /\ v \in [1..4 -> Idx] /\ v[1] \in Idx /\ v[2] \in Idx /\ v[3] \in Idx /\ v[4] \in Idx
        /\ w \in [1..4 -> Idx] /\ w[1] \in Idx /\ w[2] \in Idx /\ w[3] \in Idx /\ w[4] \in Idx
    BY Zenon, <1>2, PageFacts
  <1>4. r \in Frames /\ level[r] = 4 /\ level[r] > 1 /\ level[q] > 1
    BY Zenon, <1>2, RootFacts
  <1> HIDE DEF w, q
  <1>5. \A f, g \in Frames, i, j \in Idx :
          level[f] > 1 /\ level[g] > 1 /\ mem[f][i].p /\ mem[g][j].p /\ mem[f][i].to = mem[g][j].to
          => i = j /\ (f = g \/ (level[f] = 4 /\ i = HALF))
    BY <1>1 DEF Trees, Points
  <1>6. /\ E4(q, w).p /\ E4(q, w) = mem[q][w[4]] /\ E4(q, w).to \in Frames
        /\ level[E4(q, w).to] > 1 /\ level[E4(q, w).to] # 4
        /\ E3(q, w).p /\ E3(q, w) = mem[E4(q, w).to][w[3]] /\ E3(q, w).to \in Frames
        /\ level[E3(q, w).to] > 1 /\ level[E3(q, w).to] # 4
        /\ E2(q, w) = mem[E3(q, w).to][w[2]]
    BY Zenon, <1>2, WalkDown
  <1>7. ASSUME E2(r, v).p, E2(r, v).to = tbl, v[1] = w[1]
        PROVE  v = w /\ (r = q \/ v[4] = HALF)
    <2>1. /\ E4(r, v).p /\ E4(r, v) = mem[r][v[4]] /\ E4(r, v).to \in Frames
          /\ level[E4(r, v).to] > 1 /\ level[E4(r, v).to] # 4
          /\ E3(r, v).p /\ E3(r, v) = mem[E4(r, v).to][v[3]] /\ E3(r, v).to \in Frames
          /\ level[E3(r, v).to] > 1 /\ level[E3(r, v).to] # 4
          /\ E2(r, v) = mem[E3(r, v).to][v[2]]
      BY Zenon, <1>7, WalkDown
    <2>2. v[2] = w[2] /\ E3(r, v).to = E3(q, w).to
      <3> PICK f \in Frames, g \in Frames : f = E3(r, v).to /\ g = E3(q, w).to
        BY Zenon, <1>6, <2>1
      <3>1. /\ level[f] > 1 /\ level[g] > 1 /\ level[f] # 4
            /\ mem[f][v[2]].p /\ mem[g][w[2]].p /\ mem[f][v[2]].to = mem[g][w[2]].to
        BY Zenon, <1>2, <1>6, <1>7, <2>1
      <3> QED
        BY <3>1, <1>3, <1>5
    <2>3. v[3] = w[3] /\ E4(r, v).to = E4(q, w).to
      <3> PICK f \in Frames, g \in Frames : f = E4(r, v).to /\ g = E4(q, w).to
        BY Zenon, <1>6, <2>1
      <3>1. /\ level[f] > 1 /\ level[g] > 1 /\ level[f] # 4
            /\ mem[f][v[3]].p /\ mem[g][w[3]].p /\ mem[f][v[3]].to = mem[g][w[3]].to
        BY Zenon, <1>6, <2>1, <2>2
      <3> QED
        BY <3>1, <1>3, <1>5
    <2>4. v[4] = w[4] /\ (r = q \/ v[4] = HALF)
      <3>1. /\ level[r] > 1 /\ level[q] > 1
            /\ mem[r][v[4]].p /\ mem[q][w[4]].p /\ mem[r][v[4]].to = mem[q][w[4]].to
        BY Zenon, <1>4, <1>6, <2>1, <2>3
      <3>2. r \in Frames /\ q \in Frames /\ v[4] \in Idx /\ w[4] \in Idx
        BY Zenon, <1>2, <1>3, <1>4
      <3> QED
        BY <3>1, <3>2, <1>5
    <2>5. \A k \in 1..4 : v[k] = w[k]
      <3>1. \A k \in 1..4 : k = 1 \/ k = 2 \/ k = 3 \/ k = 4
        OBVIOUS
      <3> QED
        BY Zenon, <1>7, <2>2, <2>3, <2>4, <3>1
    <2> QED
      BY <1>3, <2>4, <2>5
  <1>8. ASSUME v = w, r = q \/ v[4] = HALF
        PROVE  E2(r, v).p /\ E2(r, v).to = tbl /\ v[1] = w[1]
    <2>1. E4(r, v) = E4(q, w)
      <3>1. \A s, t \in Roots : mem[s][HALF] = mem[t][HALF]
        BY Zenon, <1>1 DEF LegalRoots, Roots
      <3> QED
        BY Zenon, <3>1, <1>2, <1>8 DEF E4
    <2>2. E2(r, v) = E2(q, w)
      BY Zenon, <2>1, <1>8 DEF E2, E3
    <2> QED
      BY Zenon, <2>2, <1>2, <1>8
  <1> QED
    BY Zenon, <1>7, <1>8 DEF w, q

\* The directories above a page of a process let users through.
LEMMA UserPath ==
  ASSUME PtInv, lvl = 1, req.us, NEW r \in Roots, NEW v \in VPages,
         v = req.v /\ (r = req.root \/ v[4] = HALF)
  PROVE  E4(r, v).us /\ E3(r, v).us /\ E2(r, v).us
  <1>1. UserTables /\ Trees /\ TypeOK
    BY Zenon DEF PtInv
  <1>2. E2(r, v).p /\ E2(r, v).to = tbl
    BY Zenon, PteOwner
  <1>3. r = req.root /\ r \in users /\ v[4] = 0
    BY PteNow, PageTableAssumption DEF Called, Legal
  <1>4. r \in Frames /\ level[r] > 1 /\ v[2] \in Idx /\ v[3] \in Idx /\ v[4] \in Idx
    BY Zenon, RootFacts, PageFacts
  <1>5. /\ E4(r, v).p /\ E4(r, v) = mem[r][v[4]] /\ E4(r, v).to \in Frames
        /\ level[E4(r, v).to] > 1 /\ level[E4(r, v).to] # 4
        /\ E3(r, v).p /\ E3(r, v) = mem[E4(r, v).to][v[3]] /\ E3(r, v).to \in Frames
        /\ level[E3(r, v).to] > 1 /\ level[E3(r, v).to] # 4
        /\ E2(r, v) = mem[E3(r, v).to][v[2]]
    BY Zenon, <1>2, WalkDown
  <1>6. \A f \in Frames, i \in Idx :
          level[f] > 1 /\ mem[f][i].p /\ (f \in usertables \/ (f \in users /\ i = 0))
          => mem[f][i].us /\ mem[f][i].to \in usertables
    BY Zenon, <1>1 DEF UserTables, Points
  <1>7. E4(r, v).us /\ E4(r, v).to \in usertables
    <2>1. mem[r][v[4]].us /\ mem[r][v[4]].to \in usertables
      <3>1. level[r] > 1 /\ mem[r][v[4]].p /\ r \in users /\ v[4] = 0
        BY Zenon, <1>3, <1>4, <1>5
      <3> QED
        BY Zenon, <3>1, <1>4, <1>6
    <2> QED
      BY Zenon, <2>1, <1>5
  <1>8. E3(r, v).us /\ E3(r, v).to \in usertables
    <2> PICK f \in Frames : f = E4(r, v).to
      BY Zenon, <1>5
    <2>1. level[f] > 1 /\ mem[f][v[3]].p /\ f \in usertables
      BY Zenon, <1>5, <1>7
    <2>2. mem[f][v[3]].us /\ mem[f][v[3]].to \in usertables
      BY Zenon, <2>1, <1>4, <1>6
    <2> QED
      BY Zenon, <2>2, <1>5
  <1>9. E2(r, v).us
    <2> PICK f \in Frames : f = E3(r, v).to
      BY Zenon, <1>5
    <2>1. level[f] > 1 /\ mem[f][v[2]].p /\ f \in usertables
      BY Zenon, <1>2, <1>5, <1>8
    <2>2. mem[f][v[2]].us
      BY Zenon, <2>1, <1>4, <1>6
    <2> QED
      BY Zenon, <2>2, <1>5
  <1> QED
    BY Zenon, <1>7, <1>8, <1>9

\* The address spaces that the tables stand for.
Space == [r \in Roots |-> [v \in VPages |-> Translate(r, v)]]
Asked == [space |-> req.root, page |-> req.v, mapping |-> Mapping(req)]

\* Address spaces with the same translations are the same.
LEMMA SameSpace ==
  ASSUME Roots' = Roots, \A r \in Roots, v \in VPages : Translate(r, v)' = Translate(r, v)
  PROVE  Space' = Space
  BY Zenon DEF Space

\* A walk depends on the tables alone.
LEMMA SameTables ==
  ASSUME mem' = mem, NEW r, NEW v
  PROVE  Translate(r, v)' = Translate(r, v)
  <1>1. E4(r, v)' = E4(r, v)
    BY Zenon DEF E4
  <1>2. E3(r, v)' = E3(r, v)
    BY Zenon, <1>1 DEF E3, Sub, Zero
  <1>3. E2(r, v)' = E2(r, v)
    BY Zenon, <1>2 DEF E2, Sub, Zero
  <1>4. E1(r, v)' = E1(r, v)
    BY Zenon, <1>3 DEF E1, Sub, Zero
  <1> QED
    BY Zenon, <1>1, <1>2, <1>3, <1>4, SameEntries

\* Neither the walk nor the page allocator's other users show.
LEMMA HiddenStep ==
  ASSUME UNCHANGED <<mem, kernelpagetable, users, req>>
  PROVE  kernelpagetable' = kernelpagetable /\ Space' = Space /\ Asked' = Asked
  <1>1. Roots' = Roots
    BY Zenon DEF Roots
  <1>2. \A r \in Roots, v \in VPages : Translate(r, v)' = Translate(r, v)
    BY Zenon, SameTables
  <1> QED
    BY Zenon, <1>1, <1>2, SameSpace DEF Asked, Mapping

\* A new table is not seen in any address space.
LEMMA NewTableHidden ==
  ASSUME PtInv, lvl > 1, NEW f \in free, NewTable(f)
  PROVE  kernelpagetable' = kernelpagetable /\ Space' = Space /\ Asked' = Asked
  <1>1. Roots' = Roots
    BY Zenon DEF Roots, NewTable
  <1>2. \A r \in Roots, v \in VPages : Translate(r, v)' = Translate(r, v)
    BY Zenon, NewTableSame
  <1> QED
    BY Zenon, <1>1, <1>2, SameSpace DEF Asked, Mapping, NewTable

\* mmu_map_page only records what was asked.
LEMMA MapPageAsks ==
  ASSUME PtInv, NEW r \in Request, Called(r), mmu_map_page(r), Legal(r.v)
  PROVE  /\ kernelpagetable' = kernelpagetable /\ Space' = Space
         /\ Asked' \in [space : Frames, page : VPages, mapping : Entry]
         /\ Asked'.space \in DOMAIN Space
  <1>1. req' = r /\ UNCHANGED <<mem, kernelpagetable, users>>
    BY Zenon DEF mmu_map_page
  <1>2. Roots' = Roots
    BY Zenon, <1>1 DEF Roots
  <1>3. \A s \in Roots, v \in VPages : Translate(s, v)' = Translate(s, v)
    BY Zenon, <1>1, SameTables
  <1>4. /\ r.root \in Frames /\ r.v \in VPages /\ r.to \in Frames
        /\ r.us \in BOOLEAN /\ r.dev \in BOOLEAN
    BY Zenon DEF Request
  <1>5. Mapping(r) \in Entry
    BY Zenon, <1>4 DEF Mapping, Entry
  <1>6. r.root \in Roots
    BY <1>4, PageTableAssumption DEF Called, Roots, null
  <1>7. Asked' = [space |-> r.root, page |-> r.v, mapping |-> Mapping(r)]
    BY Zenon, <1>1 DEF Asked, Mapping
  <1> QED
    BY Zenon, <1>1, <1>2, <1>3, <1>4, <1>5, <1>6, <1>7, SameSpace DEF Space

\* The page asked for, and no other, gets the mapping asked for.
LEMMA SetPteMaps ==
  ASSUME PtInv, mmu_set_pte
  PROVE  /\ kernelpagetable' = kernelpagetable /\ Asked' = Asked /\ req.root \in Roots
         /\ Space' = [r \in Roots |-> [v \in VPages |->
                        IF v = req.v /\ (r = req.root \/ v[4] = HALF) THEN Mapping(req)
                        ELSE Translate(r, v)]]
  <1>1. lvl = 1 /\ UNCHANGED <<kernelpagetable, users, req>>
    BY Zenon DEF mmu_set_pte
  <1>2. Roots' = Roots /\ Asked' = Asked /\ req.root \in Roots
    BY Zenon, <1>1, PteNow DEF Roots, Asked, Mapping
  <1>3. ASSUME NEW r \in Roots, NEW v \in VPages
        PROVE  Translate(r, v)' =
                 IF v = req.v /\ (r = req.root \/ v[4] = HALF) THEN Mapping(req)
                 ELSE Translate(r, v)
    <2>1. r \in Frames /\ level[r] # 1 /\ v[1] \in Idx /\ v[2] \in Idx /\ v[3] \in Idx /\ v[4] \in Idx
      BY RootFacts, PageFacts
    <2>2. /\ E4(r, v) \in Entry /\ E3(r, v) \in Entry /\ E2(r, v) \in Entry
          /\ E4(r, v).p => E4(r, v).to \in Frames /\ level[E4(r, v).to] # 1
          /\ E3(r, v).p => E3(r, v).to \in Frames /\ level[E3(r, v).to] # 1
          /\ E2(r, v).p => E2(r, v).to \in Frames
      <3>1. E4(r, v) \in Entry /\ E3(r, v) \in Entry /\ E2(r, v) \in Entry
        BY Zenon, WalkFacts
      <3> QED BY <3>1, WalkTables
    <2>3. \A g \in Frames, j \in Idx : level[g] # 1 => mem'[g][j] = mem[g][j]
      BY Zenon, SetPteFacts
    <2>4. E4(r, v)' = E4(r, v)
      BY Zenon, <2>1, <2>3 DEF E4
    <2>5. E3(r, v)' = E3(r, v)
      <3>1. E4(r, v).p => mem'[E4(r, v).to][v[3]] = mem[E4(r, v).to][v[3]]
        BY Zenon, <2>1, <2>2, <2>3
      <3> QED
        BY Zenon, <2>4, <3>1 DEF E3, Sub, Zero
    <2>6. E2(r, v)' = E2(r, v)
      <3>1. E3(r, v).p => mem'[E3(r, v).to][v[2]] = mem[E3(r, v).to][v[2]]
        BY Zenon, <2>1, <2>2, <2>3
      <3> QED
        BY Zenon, <2>5, <3>1 DEF E2, Sub, Zero
    <2>7. CASE v = req.v /\ (r = req.root \/ v[4] = HALF)
      <3>1. E2(r, v).p /\ E2(r, v).to = tbl /\ v[1] = req.v[1]
        BY Zenon, <2>7, <1>1, PteOwner
      <3>2. E1(r, v)' = Mapping(req)
        <4>1. E1(r, v)' = IF E2(r, v).p THEN mem'[E2(r, v).to][v[1]] ELSE Zero
          BY Zenon, <2>6 DEF E1, Sub, Zero
        <4> QED
          BY Zenon, <4>1, <3>1, <2>1, <2>2, SetPteFacts
      <3>3. /\ Mapping(req).p /\ Mapping(req).to = req.to
            /\ Mapping(req).dev = req.dev /\ Mapping(req).us = req.us
        BY Zenon DEF Mapping
      <3>4. req.us => E4(r, v).us /\ E3(r, v).us /\ E2(r, v).us
        BY Zenon, <2>7, <1>1, UserPath
      <3>5. req.us \in BOOLEAN
        BY Zenon, <1>1, PteNow
      <3>6. (E4(r, v).us /\ E3(r, v).us /\ E2(r, v).us /\ req.us) = req.us
        BY Zenon, <3>4, <3>5
      <3>7. Translate(r, v)' = [p |-> TRUE, to |-> req.to, dev |-> req.dev,
                                us |-> E4(r, v).us /\ E3(r, v).us /\ E2(r, v).us /\ req.us]
        BY Zenon, <3>2, <3>3, <2>4, <2>5, <2>6 DEF Translate
      <3> QED
        BY Zenon, <3>6, <3>7, <2>7 DEF Mapping
    <2>8. CASE ~(v = req.v /\ (r = req.root \/ v[4] = HALF))
      <3>1. ~(E2(r, v).p /\ E2(r, v).to = tbl /\ v[1] = req.v[1])
        BY Zenon, <2>8, <1>1, PteOwner
      <3>2. E1(r, v)' = E1(r, v)
        <4>1. E1(r, v) = IF E2(r, v).p THEN mem[E2(r, v).to][v[1]] ELSE Zero
          BY Zenon DEF E1, Sub
        <4>2. E1(r, v)' = IF E2(r, v).p THEN mem'[E2(r, v).to][v[1]] ELSE Zero
          BY Zenon, <2>6 DEF E1, Sub, Zero
        <4>3. E1(r, v)' = E1(r, v)
          <5>1. E2(r, v).p => mem'[E2(r, v).to][v[1]] = mem[E2(r, v).to][v[1]]
            BY <3>1, <2>1, <2>2, SetPteFacts
          <5> QED
            BY Zenon, <4>1, <4>2, <5>1
        <4> QED
          BY Zenon, <4>3
      <3> QED
        BY Zenon, <3>2, <2>4, <2>5, <2>6, <2>8, SameEntries
    <2> QED
      BY Zenon, <2>7, <2>8
  <1> QED
    BY Zenon, <1>1, <1>2, <1>3 DEF Space

\* A new process sees the kernel half and nothing else.
LEMMA CreateUserIsNewSpace ==
  ASSUME PtInv, CreateUser, ~NoFrame
  PROVE  /\ kernelpagetable' = kernelpagetable /\ Asked' = Asked /\ kernelpagetable \in Roots
         /\ \E f \in Frames \ Roots :
              Space' = [s \in Roots \cup {f} |->
                          IF s # f THEN [v \in VPages |-> Translate(s, v)]
                          ELSE [v \in VPages |-> IF v[4] = HALF THEN Translate(kernelpagetable, v)
                                                 ELSE Zero]]
  <1>1. PICK f \in free : NewUser(f)
    BY Zenon DEF CreateUser, mmu_init_user_pagetable, NewUser
  <1>2. kernelpagetable # null /\ mem[kernelpagetable][HALF].p
    BY Zenon DEF CreateUser
  <1>3. /\ f \in Frames /\ level[f] = 0 /\ f \notin Roots /\ kernelpagetable \in Roots
        /\ Roots' = Roots \cup {f} /\ HALF \in Idx
        /\ \A g \in Frames : g # f => mem'[g] = mem[g]
        /\ mem'[f][HALF] = mem[kernelpagetable][HALF]
        /\ \A j \in Idx : mem'[f][j].p => j = HALF
    BY Zenon, <1>1, <1>2, NewUserFacts
  <1>4. ASSUME NEW s \in Roots, NEW v \in VPages
        PROVE  Translate(s, v)' = Translate(s, v)
    <2>1. mem'[s][v[4]] = mem[s][v[4]]
      BY Zenon, <1>3, RootFacts
    <2> QED
      BY Zenon, <2>1, <1>3, SameWalk
  <1>5. ASSUME NEW v \in VPages, v[4] = HALF
        PROVE  Translate(f, v)' = Translate(kernelpagetable, v)
    BY Zenon, <1>3, <1>5, SameWalk
  <1>6. ASSUME NEW v \in VPages, v[4] # HALF
        PROVE  Translate(f, v)' = Zero
    BY Zenon, <1>3, <1>6, PageFacts, EmptyRoot
  <1>7. Space' = [s \in Roots \cup {f} |->
                    IF s # f THEN [v \in VPages |-> Translate(s, v)]
                    ELSE [v \in VPages |-> IF v[4] = HALF THEN Translate(kernelpagetable, v)
                                           ELSE Zero]]
    <2>1. Space' = [s \in Roots \cup {f} |-> [v \in VPages |-> Translate(s, v)']]
      BY Zenon, <1>3 DEF Space
    <2> QED
      BY <2>1, <1>3, <1>4, <1>5, <1>6
  <1>8. kernelpagetable' = kernelpagetable /\ Asked' = Asked
    BY Zenon, <1>1 DEF NewUser, walkvars, Asked, Mapping
  <1> QED
    BY Zenon, <1>3, <1>7, <1>8

\* pagetable_init is the step that makes the kernel address space.
LEMMA KernelTableIsNewKernel ==
  ASSUME PtInv, pagetable_init, ~NoFrame
  PROVE  /\ Roots = {} /\ kernelpagetable' \in Frames /\ Asked' = Asked
         /\ Space' = [s \in {kernelpagetable'} |-> [v \in VPages |-> Zero]]
  <1>1. PICK f \in free :
          /\ mem' = [mem EXCEPT ![f] = Cleared]
          /\ kernelpagetable' = f
          /\ UNCHANGED <<users, walkvars>>
    BY Zenon DEF pagetable_init
  <1>2. TypeOK /\ LegalRoots /\ kernelpagetable = null
    BY Zenon DEF PtInv, pagetable_init
  <1>3. f \in Frames /\ null \notin Frames
    BY <1>2, PageTableAssumption DEF TypeOK, null
  <1>4. Roots = {} /\ Roots' = {f}
    BY Zenon, <1>1, <1>2, <1>3 DEF LegalRoots, Roots
  <1>5. ASSUME NEW v \in VPages PROVE Translate(f, v)' = Zero
    <2>1. mem'[f][v[4]] = Zero
      BY Zenon, <1>1, <1>2, <1>3, PageFacts DEF TypeOK, Cleared
    <2> QED
      BY Zenon, <2>1, EmptyRoot, ZeroFacts
  <1>6. Space' = [s \in {f} |-> [v \in VPages |-> Zero]]
    BY Zenon, <1>4, <1>5 DEF Space
  <1>7. Asked' = Asked
    BY Zenon, <1>1 DEF walkvars, Asked, Mapping
  <1> QED
    BY Zenon, <1>1, <1>3, <1>4, <1>6, <1>7

\* Every step of the page tables is a step of the address spaces, or does not
\* show.
LEMMA StepRefines == PtInv /\ [Next]_ptvars => [A!Next]_(A!vars)
  <1> SUFFICES ASSUME PtInv, [Next]_ptvars
               PROVE  A!Next \/ UNCHANGED A!vars
    BY Zenon DEF A!vars
  <1>1. ASSUME kernelpagetable' = kernelpagetable, Space' = Space, Asked' = Asked
        PROVE  UNCHANGED A!vars
    BY Zenon, <1>1 DEF A!vars, Space, Asked
  <1>2. CASE NoFrame \/ OthersAllocate \/ UNCHANGED ptvars
    BY Zenon, <1>1, <1>2, HiddenStep DEF NoFrame, OthersAllocate, ptvars, walkvars
  <1>3. ASSUME NEW r \in Request, Called(r), mmu_map_page(r)
        PROVE  A!Next \/ UNCHANGED A!vars
    <2>1. CASE Legal(r.v)
      BY Zenon, <1>3, <2>1, MapPageAsks DEF A!Next, A!Ask, A!Requests, Space, Asked
    <2>2. CASE ~Legal(r.v)
      BY Zenon, <1>1, <1>3, <2>2, HiddenStep DEF mmu_map_page, walkvars
    <2> QED
      BY Zenon, <2>1, <2>2
  <1>4. CASE pagetable_walk_getsubtable
    <2>1. CASE Follow
      BY Zenon, <1>1, <2>1, HiddenStep DEF Follow
    <2>2. CASE \E f \in free : NewTable(f)
      BY Zenon, <1>1, <1>4, <2>2, WalkCases, NewTableHidden
    <2> QED
      BY Zenon, <1>2, <1>4, <2>1, <2>2, WalkCases
  <1>5. CASE mmu_set_pte
    <2>1. A!Map
      BY Zenon, <1>5, SetPteMaps DEF A!Map, Space, Asked
    <2> QED
      BY Zenon, <2>1 DEF A!Next
  <1>6. CASE CreateUser /\ ~NoFrame
    <2>1. A!NewSpace
      BY Zenon, <1>6, CreateUserIsNewSpace DEF A!NewSpace, Space, Asked
    <2> QED
      BY Zenon, <2>1 DEF A!Next
  <1>7. CASE pagetable_init /\ ~NoFrame
    <2>1. A!NewKernel
      BY Zenon, <1>7, KernelTableIsNewKernel DEF A!NewKernel, Space, Asked
    <2> QED
      BY Zenon, <2>1 DEF A!Next
  <1> QED
    BY Zenon, <1>2, <1>3, <1>4, <1>5, <1>6, <1>7 DEF Next

\* mmu_map_page, which writes one table after another while other users of
\* the page allocator run, and mmu_init_user_pagetable implement address
\* spaces: a page gets its mapping at once, and no other page of any address
\* space ever changes.
THEOREM Refinement == Spec => ImplementsAddressSpaces
  <1>1. Init => A!Init
    <2> SUFFICES ASSUME Init PROVE A!Init
      OBVIOUS
    <2>1. kernelpagetable \notin Frames /\ Roots = {}
      BY PageTableAssumption DEF Init, Roots, null
    <2>2. Mapping(req) \in Entry /\ req.root \in Frames /\ req.v \in VPages
      BY Zenon DEF Init, Request, Mapping, Entry
    <2> QED
      BY Zenon, <2>1, <2>2 DEF A!Init, A!Requests
  <1>2. PtInv /\ [Next]_ptvars => [A!Next]_(A!vars)
    BY Zenon, StepRefines
  <1> QED
    BY <1>1, <1>2, Inductive, PTL DEF Spec, ImplementsAddressSpaces, A!Spec
=============================================================================
