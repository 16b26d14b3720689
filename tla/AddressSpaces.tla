--------------------------- MODULE AddressSpaces ---------------------------
(***************************************************************************)
(* What the page tables promise: every address space is a map from virtual *)
(* pages to mappings, the kernel half is one map that all of them share,   *)
(* and the user half of each is its own.                                   *)
(***************************************************************************)
CONSTANTS
  Spaces,           \* identities of address spaces
  VPages,           \* the virtual pages
  KernelHalf,       \* the pages of the kernel half
  Mappings,         \* what a page may map to
  Unmapped

VARIABLES
  kernel,           \* the kernel's own address space, once there is one
  space,            \* [existing spaces -> [VPages -> Mappings]]
  asked             \* the mapping last asked for

vars == <<kernel, space, asked>>

Requests == [space : Spaces, page : VPages, mapping : Mappings]

Init == kernel \notin Spaces /\ DOMAIN space = {} /\ asked \in Requests

\* The kernel's address space is created empty.
NewKernel ==
  /\ DOMAIN space = {}
  /\ kernel' \in Spaces
  /\ space' = [s \in {kernel'} |-> [v \in VPages |-> Unmapped]]
  /\ UNCHANGED asked

\* A new address space sees the kernel half and nothing else.
NewSpace ==
  \E n \in Spaces \ DOMAIN space :
    /\ kernel \in DOMAIN space
    /\ DOMAIN space' = DOMAIN space \cup {n}
    /\ space' = [s \in DOMAIN space \cup {n} |->
                   IF s # n THEN space[s]
                   ELSE [v \in VPages |-> IF v \in KernelHalf THEN space[kernel][v] ELSE Unmapped]]
    /\ UNCHANGED <<kernel, asked>>

Ask ==
  /\ asked' \in Requests
  /\ asked'.space \in DOMAIN space
  /\ UNCHANGED <<kernel, space>>

\* What was asked for takes effect in its address space, or in the kernel
\* half of all.
Map ==
  /\ asked.space \in DOMAIN space
  /\ space' = [s \in DOMAIN space |-> [v \in VPages |->
                 IF v = asked.page /\ (s = asked.space \/ v \in KernelHalf) THEN asked.mapping
                 ELSE space[s][v]]]
  /\ UNCHANGED <<kernel, asked>>

Next == Ask \/ Map \/ NewKernel \/ NewSpace

Spec == Init /\ [][Next]_vars
=============================================================================
