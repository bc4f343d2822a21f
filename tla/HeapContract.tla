---------------------------- MODULE HeapContract ----------------------------
(***************************************************************************)
(* What allocator.hpp promises to its callers, with nothing said of how:   *)
(* regions of memory that are large enough, aligned and disjoint, resized  *)
(* in place or moved, each resize and each release in one step.            *)
(*                                                                         *)
(* A region is a record [addr, room, asked]: its first byte, the bytes the *)
(* allocator set aside for it and the bytes the client asked for.          *)
(***************************************************************************)
EXTENDS Naturals

CONSTANTS Clients,
          Alignment    \* alignof(std::max_align_t)

NoRegion == [addr |-> 0, room |-> 0, asked |-> 0]

VARIABLE region     \* what each client holds, or NoRegion

Region == [addr : Nat, room : Nat, asked : Nat]

Holds(c) == region[c] # NoRegion

Apart(r, s) == r.addr + r.room <= s.addr \/ s.addr + s.room <= r.addr

\* A region that may be handed to c while the others keep theirs.
Usable(r, c) ==
  /\ r.addr > 0 /\ r.addr % Alignment = 0
  /\ r.room >= r.asked
  /\ \A d \in Clients \ {c} : Holds(d) => Apart(r, region[d])

Init == region = [c \in Clients |-> NoRegion]

\* my_malloc that succeeds; one that fails changes nothing.
Acquire(c) ==
  /\ ~Holds(c)
  /\ Usable(region'[c], c)
  /\ region' = [region EXCEPT ![c] = region'[c]]

\* my_realloc that returns the pointer it was given: it never takes room away.
ResizeInPlace(c) ==
  /\ Holds(c)
  /\ Usable(region'[c], c)
  /\ region'[c].addr = region[c].addr
  /\ region'[c].room >= region[c].room
  /\ region' = [region EXCEPT ![c] = region'[c]]

\* my_realloc that returns another pointer: only to grow, and the copy is
\* made between two regions that do not overlap.
Move(c) ==
  /\ Holds(c)
  /\ Usable(region'[c], c)
  /\ Apart(region'[c], region[c])
  /\ region'[c].asked > region[c].room
  /\ region' = [region EXCEPT ![c] = region'[c]]

\* my_free.
Release(c) ==
  /\ Holds(c)
  /\ region' = [region EXCEPT ![c] = NoRegion]

\* allocator_shutdown invalidates every pointer.
Shutdown == region' = [c \in Clients |-> NoRegion]

Next == \/ \E c \in Clients : \/ Acquire(c)
                              \/ ResizeInPlace(c)
                              \/ Move(c)
                              \/ Release(c)
        \/ Shutdown

Spec == Init /\ [][Next]_region
=============================================================================
