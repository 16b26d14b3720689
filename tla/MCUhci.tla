------------------------------- MODULE MCUhci -------------------------------
(***************************************************************************)
(* Devices for model checking Uhci: a single device with any short         *)
(* configuration, and two keyboards that differ in their strings, in their *)
(* packet size and in the length of their configuration.                   *)
(***************************************************************************)
EXTENDS Uhci

CONSTANTS
  MaxDescriptors,  \* descriptors behind the configuration descriptor
  Padding          \* bytes of class descriptors of a keyboard with many

Descriptors ==
  {[t |-> "INTERFACE", len |-> 9, alt |-> a, n |-> n, kbd |-> TRUE] : a \in 0..1, n \in 0..1}
  \cup {[t |-> "ENDPOINT", len |-> 7, inint |-> b, mps |-> 8] : b \in BOOLEAN}
  \cup {[t |-> "OTHER", len |-> 9]}

Total(ds) == FoldLeft(LAMBDA n, d : n + d.len, 9, ds)
Config(ds, n, cut) ==
  <<[t |-> "CONFIGURATION", len |-> 9, n |-> n, total |-> Total(ds) - cut]>> \o ds

AnyDevice ==
  {[cls |-> TRUE, langs |-> 4, product |-> 0, manufacturer |-> 0, cfg |-> Config(ds, n, cut)] :
     ds \in UNION {[1..k -> Descriptors] : k \in 1..MaxDescriptors},
     n \in 1..2, cut \in 0..1}

\* A keyboard whose endpoint packets have mps bytes, with a class descriptor of pad bytes.
Keyboard(langs, product, mps, pad) ==
  [cls |-> TRUE, langs |-> langs, product |-> product, manufacturer |-> product,
   cfg |-> Config(<<[t |-> "INTERFACE", len |-> 9, alt |-> 0, n |-> 1, kbd |-> TRUE],
                    [t |-> "OTHER", len |-> pad],
                    [t |-> "ENDPOINT", len |-> 7, inint |-> TRUE, mps |-> mps]>>, 1, 0)]

Pair(d, e) == [p \in Port |-> IF p = 0 THEN d ELSE e]

MCPlugged ==
  {Pair(d, NoDevice) : d \in AnyDevice}
  \cup {Pair(Keyboard(4, 0, 8, 9), e) : e \in {Keyboard(4, 20, 8, 9), Keyboard(4, 0, 4, 9)}}
  \cup {Pair(Keyboard(2, 20, 8, 9), NoDevice), Pair(NoDevice, Keyboard(4, 0, 8, Padding))}
=============================================================================
