----------------------------- MODULE PageTable -----------------------------
(***************************************************************************)
(* The x86_64 page tables of mmu.c and pagetable.c.  A table is a page     *)
(* frame with FAN entries; a walk goes from the lvl4 table to a lvl1 table *)
(* and allocates the tables it misses.  A virtual page is its four table   *)
(* indices.  mmu_map_page is one step per table level, as other users of   *)
(* the page allocator may come between two of them.                        *)
(*                                                                         *)
(* level and usertables are auxiliary: no code reads them.                 *)
(***************************************************************************)
EXTENDS Integers, FiniteSets

CONSTANTS
  FAN,              \* entries per table: 512
  HALF,             \* first lvl4 index of the kernel half: 256
  Frames,           \* page frames, those of devices included
  VPages            \* the virtual pages that are mapped or looked at

Levels == 1..4
Idx == 0..(FAN - 1)

ASSUME PageTableAssumption ==
  /\ FAN \in Nat /\ HALF \in 1..(FAN - 1)
  /\ Frames \subseteq Nat /\ 0 \in Frames
  /\ VPages \subseteq [Levels -> Idx]

VARIABLES
  mem,              \* [Frames -> [Idx -> Entry]]: page frames read as tables
  free,             \* the frames the page allocator may hand out
  kernelpagetable,  \* the kernel's lvl4 table; null before pagetable_init
  users,            \* lvl4 tables of user processes
  req,              \* the arguments of the mmu_map_page in progress
  lvl, tbl,         \* its walk: at table tbl of level lvl; 0: no call in progress
  panic,
  level,            \* level of every table, 0 for other frames
  usertables        \* tables below the user half of a user process

walkvars == <<req, lvl, tbl>>
ptvars == <<mem, free, kernelpagetable, users, req, lvl, tbl, panic, level, usertables>>

null == -1

Entry == [p : BOOLEAN, to : Frames, us : BOOLEAN, dev : BOOLEAN]
Zero == [p |-> FALSE, to |-> 0, us |-> FALSE, dev |-> FALSE]
Cleared == [i \in Idx |-> Zero]

Request == [root : Frames, v : VPages, to : Frames, us : BOOLEAN, dev : BOOLEAN]

----------------------------------------------------------------------------
(* The processor's walk: a page is mapped if every level is present, and a *)
(* user may use it if every level says so.                                 *)

Sub(e, i) == IF e.p THEN mem[e.to][i] ELSE Zero

E4(r, v) == mem[r][v[4]]
E3(r, v) == Sub(E4(r, v), v[3])
E2(r, v) == Sub(E3(r, v), v[2])
E1(r, v) == Sub(E2(r, v), v[1])

Translate(r, v) ==
  IF E1(r, v).p
  THEN [p |-> TRUE, to |-> E1(r, v).to, dev |-> E1(r, v).dev,
        us |-> E4(r, v).us /\ E3(r, v).us /\ E2(r, v).us /\ E1(r, v).us]
  ELSE Zero

----------------------------------------------------------------------------
(* A frame for a table, cleared.  When there is none the page allocator    *)
(* and pagetable_alloc PANIC.                                              *)

NoFrame ==
  /\ free = {}
  /\ panic' = TRUE
  /\ UNCHANGED <<mem, free, kernelpagetable, users, walkvars, level, usertables>>

pagetable_init ==
  /\ ~panic /\ kernelpagetable = null
  /\ \/ NoFrame
     \/ \E f \in free :
          /\ mem' = [mem EXCEPT ![f] = Cleared]
          /\ free' = free \ {f}
          /\ kernelpagetable' = f
          /\ level' = [level EXCEPT ![f] = 4]
          /\ UNCHANGED <<users, walkvars, panic, usertables>>

\* The lvl4 indices that mmu_map_page accepts: the first of the user half
\* and the first of the kernel half.
Legal(v) == v[4] \in {0, HALF}

mmu_map_page(r) ==
  /\ ~panic /\ lvl = 0
  /\ IF Legal(r.v)
     THEN req' = r /\ lvl' = 4 /\ tbl' = r.root /\ UNCHANGED panic
     ELSE panic' = TRUE /\ UNCHANGED walkvars
  /\ UNCHANGED <<mem, free, kernelpagetable, users, level, usertables>>

DirEntry_nouser(f) == [p |-> TRUE, to |-> f, us |-> FALSE, dev |-> FALSE]

\* A directory entry made for a user page lets users through.
DirEntry(f) == [p |-> TRUE, to |-> f, us |-> req.us, dev |-> FALSE]

pagetable_walk_getsubtable ==
  /\ ~panic /\ lvl > 1
  /\ LET i == req.v[lvl]
         e == mem[tbl][i]
     IN \/ /\ e.p
           /\ tbl' = e.to
           /\ lvl' = lvl - 1
           /\ UNCHANGED <<mem, free, kernelpagetable, users, req, panic, level, usertables>>
        \/ ~e.p /\ NoFrame
        \/ /\ ~e.p
           /\ \E f \in free :
                /\ mem' = [mem EXCEPT ![f] = Cleared, ![tbl][i] = DirEntry(f)]
                /\ free' = free \ {f}
                /\ tbl' = f
                /\ level' = [level EXCEPT ![f] = lvl - 1]
                /\ usertables' = IF req.us THEN usertables \cup {f} ELSE usertables
           /\ lvl' = lvl - 1
           /\ UNCHANGED <<kernelpagetable, users, req, panic>>

Mapping(r) == [p |-> TRUE, to |-> r.to, us |-> r.us, dev |-> r.dev]

\* The end of mmu_map_page: the entry of the page itself, new or not.
mmu_set_pte ==
  /\ ~panic /\ lvl = 1
  /\ mem' = [mem EXCEPT ![tbl][req.v[1]] = Mapping(req)]
  /\ lvl' = 0
  /\ UNCHANGED <<free, kernelpagetable, users, req, tbl, panic, level, usertables>>

\* The lvl4 table of a new user process: cleared, then the present entries
\* of the kernel half copied.
mmu_init_user_pagetable ==
  /\ ~panic /\ lvl = 0 /\ kernelpagetable # null
  /\ \/ NoFrame
     \/ \E f \in free :
          /\ mem' = [mem EXCEPT ![f] = [i \in Idx |-> IF i >= HALF THEN mem[kernelpagetable][i]
                                                                ELSE Zero]]
          /\ free' = free \ {f}
          /\ users' = users \cup {f}
          /\ level' = [level EXCEPT ![f] = 4]
          /\ UNCHANGED <<kernelpagetable, walkvars, panic, usertables>>

----------------------------------------------------------------------------
(* The calls the kernel makes: its own pages without MMU_USER, the pages   *)
(* of a process in the user half with it.                                  *)

Called(r) ==
  \/ r.root = kernelpagetable /\ ~r.us
  \/ r.root \in users /\ r.us /\ ~r.dev /\ r.v[4] < HALF

\* Other users of the page allocator take frames and give them back.
OthersAllocate ==
  /\ free' \in SUBSET {f \in Frames : level[f] = 0}
  /\ UNCHANGED <<mem, kernelpagetable, users, walkvars, panic, level, usertables>>

\* Processes are created once the kernel half is in use.
CreateUser ==
  /\ kernelpagetable # null
  /\ mem[kernelpagetable][HALF].p
  /\ mmu_init_user_pagetable

Init ==
  /\ mem \in [Frames -> [Idx -> Entry]]
  /\ free \in SUBSET Frames
  /\ kernelpagetable = null /\ users = {}
  /\ req \in Request /\ lvl = 0 /\ tbl = 0
  /\ panic = FALSE
  /\ level = [f \in Frames |-> 0]
  /\ usertables = {}

Next ==
  \/ pagetable_init
  \/ \E r \in Request : Called(r) /\ mmu_map_page(r)
  \/ pagetable_walk_getsubtable
  \/ mmu_set_pte
  \/ CreateUser
  \/ OthersAllocate

Spec == Init /\ [][Next]_ptvars

Roots == users \cup (IF kernelpagetable = null THEN {} ELSE {kernelpagetable})

----------------------------------------------------------------------------

TypeOK ==
  /\ mem \in [Frames -> [Idx -> Entry]]
  /\ free \subseteq Frames
  /\ kernelpagetable \in Frames \cup {null}
  /\ users \subseteq Frames
  /\ req \in Request /\ lvl \in 0..4 /\ tbl \in Frames
  /\ panic \in BOOLEAN
  /\ level \in [Frames -> 0..4]
  /\ usertables \subseteq Frames

\* A present entry of a table above lvl1 points to a table.
Points(f, i) == level[f] > 1 /\ mem[f][i].p

\* The tables form trees under the lvl4 tables, apart from the kernel half,
\* which all of them share.
Trees ==
  /\ \A f \in free : level[f] = 0
  /\ \A f \in Frames : f \in Roots <=> level[f] = 4
  /\ \A f \in Frames, i \in Idx : Points(f, i) => level[mem[f][i].to] = level[f] - 1
  /\ \A f, g \in Frames, i, j \in Idx :
       Points(f, i) /\ Points(g, j) /\ mem[f][i].to = mem[g][j].to
       => i = j /\ (f = g \/ (level[f] = 4 /\ level[g] = 4 /\ i = HALF))

\* Only two lvl4 entries are used, and the kernel's is the same everywhere.
LegalRoots ==
  /\ kernelpagetable \notin users
  /\ users # {} => kernelpagetable # null /\ mem[kernelpagetable][HALF].p
  /\ \A u \in users : mem[u][HALF] = mem[kernelpagetable][HALF]
  /\ \A r \in Roots, i \in Idx : mem[r][i].p => i \in {0, HALF}

\* The tables of the user half of a process, and only they, let users through.
UserTables ==
  /\ \A f \in usertables : level[f] \in 1..3
  /\ \A f \in Frames, i \in Idx :
       Points(f, i) =>
         IF f \in usertables \/ (f \in users /\ i = 0)
         THEN mem[f][i].us /\ mem[f][i].to \in usertables
         ELSE mem[f][i].to \notin usertables

\* mmu_map_page walks down from its root along its page.
Walks ==
  lvl # 0 =>
    /\ Called(req) /\ Legal(req.v)
    /\ level[tbl] = lvl
    /\ lvl < 4 => (tbl \in usertables <=> req.us)
    /\ lvl = 4 => tbl = req.root
    /\ lvl = 3 => E4(req.root, req.v).p /\ E4(req.root, req.v).to = tbl
    /\ lvl = 2 => E3(req.root, req.v).p /\ E3(req.root, req.v).to = tbl
    /\ lvl = 1 => E2(req.root, req.v).p /\ E2(req.root, req.v).to = tbl

\* The page tables in memory are well formed at every step of a walk.
PtInv == TypeOK /\ Trees /\ LegalRoots /\ UserTables /\ Walks

A == INSTANCE AddressSpaces WITH
       Spaces <- Frames,
       KernelHalf <- {v \in VPages : v[4] = HALF},
       Mappings <- Entry,
       Unmapped <- Zero,
       kernel <- kernelpagetable,
       space <- [r \in Roots |-> [v \in VPages |-> Translate(r, v)]],
       asked <- [space |-> req.root, page |-> req.v, mapping |-> Mapping(req)]

\* The tables that mmu.c builds level by level behave as address spaces: a
\* page mapped by mmu_map_page translates to its frame with its flags, in
\* the kernel half at once in every process that was created before; no
\* other page of any address space changes.
ImplementsAddressSpaces == A!Spec
=============================================================================
