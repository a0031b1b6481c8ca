------------------------- MODULE DriverDisplayProofs -------------------------
(***************************************************************************)
(* The driver's pictures arrive: theorems about DriverDisplay, for threads *)
(* that do not draw in each other's windows and readers that end before    *)
(* the next connection is served.                                          *)
(*                                                                         *)
(* What the host will have once a socket is drained is the fold of the     *)
(* messages over the framebuffer.  The invariant does not compute it: it   *)
(* speaks of the places where the newest complete frame of a window and    *)
(* the newest contents of a tile are on their way.                         *)
(***************************************************************************)
EXTENDS DriverDisplay, TLAPS

-----------------------------------------------------------------------------
(* The way of a window's messages on the connection in use: place 0 is the
   framebuffer, taken for the complete frame it came from; place 1 the message the
   reader has in its hand; then the socket. *)

OfWindow(h, m) == IF m # None /\ m.hwnd = h THEN m ELSE None

Shown(h) == IF host[h] # None /\ host[h].owner = generation
            THEN [kind |-> "full", hwnd |-> h, bits |-> host[h].bits] ELSE None

Way(h) == [k \in 0..Len(wire[generation]) + 1 |->
              IF k = 0 THEN Shown(h)
              ELSE OfWindow(h, IF k = 1 THEN hand[generation] ELSE wire[generation][k - 1])]

IsKind(p, k, kind) == p[k] # None /\ p[k].kind = kind
IsFrame(p, k) == IsKind(p, k, "full") \/ IsKind(p, k, "dirty")

(* From place i to place k there are rectangles only. *)
OnlyDirty(p, i, k) == \A n \in i..k : p[n] # None => p[n].kind = "dirty"

(* A rectangle comes after the complete frame it is merged into. *)
Based(p, last) ==
    \A k \in 0..last : IsKind(p, k, "dirty") =>
        \E j \in 0..k - 1 : /\ IsKind(p, j, "full") /\ OnlyDirty(p, j + 1, k - 1)
                            /\ DOMAIN p[k].bits \subseteq DOMAIN p[j].bits

(* The newest complete frame has this geometry. *)
Complete(p, last, geometry) ==
    \E j \in 0..last : /\ IsKind(p, j, "full") /\ OnlyDirty(p, j + 1, last)
                       /\ DOMAIN p[j].bits = geometry

(* The newest contents of tile t are v. *)
Newest(p, last, t, v) ==
    \E k \in 0..last : /\ IsFrame(p, k) /\ t \in DOMAIN p[k].bits /\ p[k].bits[t] = v
                       /\ \A i \in k + 1..last : IsFrame(p, i) => t \notin DOMAIN p[i].bits

(* Every frame is followed by a DESTROY. *)
Gone(p, last) ==
    \A k \in 0..last : IsFrame(p, k) => \E i \in k + 1..last : IsKind(p, i, "destroy")

Up == open /\ conn[generation] = "up"
Last == Len(wire[generation]) + 1

(* The part about the connections: those before the one in use have ended and left
   nothing, those after it are not there yet. *)
ConnectionsOK ==
    /\ open => generation > 0
    /\ \A g \in Generations :
         /\ g < generation => conn[g] = "ended"
         /\ g > generation => conn[g] = "none"
         /\ conn[g] \in {"none", "ended"} =>
               /\ wire[g] = <<>> /\ hand[g] = None
               /\ \A h \in Hwnds : host[h] # None => host[h].owner # g
    /\ \A h \in Hwnds : baseline[h] <= generation

(* The part about a window and its surfaces. *)
SurfaceOK(h) ==
    /\ created[h] # None => life[h] = "live" /\ ~created[h].presented
    /\ life[h] = "free" => current[h] = None
    /\ life[h] \in {"releasing", "free"} => baseline[h] = 0

(* The part about its messages. *)
WayOK(h) ==
    /\ Based(Way(h), Last)
    /\ life[h] \in {"forgetting", "releasing", "free"} => Gone(Way(h), Last)
    /\ /\ life[h] = "live" /\ baseline[h] = generation
       /\ current[h] # None /\ current[h].presented
       => /\ Complete(Way(h), Last, DOMAIN current[h].bits)
          /\ \A t \in DOMAIN current[h].bits \ current[h].bounds :
                Newest(Way(h), Last, t, current[h].bits[t])

DisplayOK == /\ TypeOK /\ ConnectionsOK
             /\ \A h \in Hwnds : SurfaceOK(h)
             /\ Up => \A h \in Hwnds : WayOK(h)

-----------------------------------------------------------------------------
(* What the three changes of a way do to these predicates, for any way p that
   becomes q.  First, something is put at its end. *)

LEMMA AppendedBased ==
    ASSUME NEW p, NEW q, NEW last \in Nat, NEW geometry,
           \A k \in 0..last : q[k] = p[k],
           Based(p, last),
           IsKind(q, last + 1, "dirty") => /\ Complete(p, last, geometry)
                                           /\ DOMAIN q[last + 1].bits \subseteq geometry
    PROVE  Based(q, last + 1)
<1> SUFFICES ASSUME NEW k \in 0..last + 1, IsKind(q, k, "dirty")
             PROVE  \E j \in 0..k - 1 : /\ IsKind(q, j, "full") /\ OnlyDirty(q, j + 1, k - 1)
                                        /\ DOMAIN q[k].bits \subseteq DOMAIN q[j].bits
  BY DEF Based
<1>1. CASE k \in 0..last
  <2>1. PICK j \in 0..k - 1 : /\ IsKind(p, j, "full") /\ OnlyDirty(p, j + 1, k - 1)
                              /\ DOMAIN p[k].bits \subseteq DOMAIN p[j].bits
    BY <1>1 DEF Based, IsKind
  <2>2. IsKind(q, j, "full") /\ OnlyDirty(q, j + 1, k - 1)
    BY <1>1, <2>1 DEF IsKind, OnlyDirty
  <2> QED BY <1>1, <2>1, <2>2
<1>2. CASE k = last + 1
  <2>1. PICK j \in 0..last : /\ IsKind(p, j, "full") /\ OnlyDirty(p, j + 1, last)
                             /\ DOMAIN p[j].bits = geometry
    BY <1>2 DEF Complete
  <2>2. IsKind(q, j, "full") /\ OnlyDirty(q, j + 1, k - 1)
    BY <1>2, <2>1 DEF IsKind, OnlyDirty
  <2> QED BY <1>2, <2>1, <2>2
<1> QED BY <1>1, <1>2

LEMMA AppendedComplete ==
    ASSUME NEW p, NEW q, NEW last \in Nat, NEW geometry,
           \A k \in 0..last : q[k] = p[k],
           Complete(p, last, geometry),
           q[last + 1] = None \/ q[last + 1].kind = "dirty"
    PROVE  Complete(q, last + 1, geometry)
<1>1. PICK j \in 0..last : /\ IsKind(p, j, "full") /\ OnlyDirty(p, j + 1, last)
                           /\ DOMAIN p[j].bits = geometry
  BY DEF Complete
<1>2. IsKind(q, j, "full") /\ DOMAIN q[j].bits = geometry /\ j \in 0..last + 1
  BY <1>1 DEF IsKind
<1>3. OnlyDirty(q, j + 1, last + 1)
  BY <1>1 DEF OnlyDirty
<1> QED BY <1>2, <1>3 DEF Complete

LEMMA AppendedNewest ==
    ASSUME NEW p, NEW q, NEW last \in Nat, NEW t, NEW v,
           \A k \in 0..last : q[k] = p[k],
           Newest(p, last, t, v),
           IsFrame(q, last + 1) => t \notin DOMAIN q[last + 1].bits
    PROVE  Newest(q, last + 1, t, v)
<1>1. PICK k \in 0..last :
         /\ IsFrame(p, k) /\ t \in DOMAIN p[k].bits /\ p[k].bits[t] = v
         /\ \A i \in k + 1..last : IsFrame(p, i) => t \notin DOMAIN p[i].bits
  BY DEF Newest
<1>2. IsFrame(q, k) /\ t \in DOMAIN q[k].bits /\ q[k].bits[t] = v /\ k \in 0..last + 1
  BY <1>1 DEF IsFrame, IsKind
<1>3. \A i \in k + 1..last + 1 : IsFrame(q, i) => t \notin DOMAIN q[i].bits
  BY <1>1 DEF IsFrame, IsKind
<1> QED BY <1>2, <1>3 DEF Newest

LEMMA AppendedGone ==
    ASSUME NEW p, NEW q, NEW last \in Nat,
           \A k \in 0..last : q[k] = p[k],
           Gone(p, last), q[last + 1] = None
    PROVE  Gone(q, last + 1)
<1> SUFFICES ASSUME NEW k \in 0..last + 1, IsFrame(q, k)
             PROVE  \E i \in k + 1..last + 1 : IsKind(q, i, "destroy")
  BY DEF Gone
<1>1. k \in 0..last /\ IsFrame(p, k)
  BY DEF IsFrame, IsKind
<1>2. PICK i \in k + 1..last : IsKind(p, i, "destroy")
  BY <1>1 DEF Gone
<1> QED BY <1>1, <1>2 DEF IsKind

LEMMA AppendedFull ==
    ASSUME NEW q, NEW last \in Nat, IsKind(q, last + 1, "full")
    PROVE  /\ Complete(q, last + 1, DOMAIN q[last + 1].bits)
           /\ \A t \in DOMAIN q[last + 1].bits : Newest(q, last + 1, t, q[last + 1].bits[t])
BY DEF Complete, Newest, IsFrame, OnlyDirty

LEMMA AppendedDirty ==
    ASSUME NEW q, NEW last \in Nat, IsKind(q, last + 1, "dirty")
    PROVE  \A t \in DOMAIN q[last + 1].bits : Newest(q, last + 1, t, q[last + 1].bits[t])
BY DEF Newest, IsFrame

LEMMA AppendedDestroy ==
    ASSUME NEW p, NEW q, NEW last \in Nat, IsKind(q, last + 1, "destroy")
    PROVE  Gone(q, last + 1)
BY DEF Gone, IsFrame, IsKind

-----------------------------------------------------------------------------
(* Second, the reader takes the first message of the socket into its free hand. *)
Moved(p, q, last) == /\ p[1] = None /\ q[0] = p[0]
                     /\ \A k \in 1..last : q[k] = p[k + 1]

LEMMA MovedBased ==
    ASSUME NEW p, NEW q, NEW last \in Nat, Moved(p, q, last), Based(p, last + 1)
    PROVE  Based(q, last)
<1> SUFFICES ASSUME NEW k \in 0..last, IsKind(q, k, "dirty")
             PROVE  \E j \in 0..k - 1 : /\ IsKind(q, j, "full") /\ OnlyDirty(q, j + 1, k - 1)
                                        /\ DOMAIN q[k].bits \subseteq DOMAIN q[j].bits
  BY DEF Based
<1>1. k # 0
  <2> SUFFICES ASSUME k = 0 PROVE FALSE
    OBVIOUS
  <2> IsKind(p, 0, "dirty")
    BY DEF Moved, IsKind
  <2> QED BY DEF Based
<1>2. IsKind(p, k + 1, "dirty") /\ p[k + 1] = q[k]
  BY <1>1 DEF Moved, IsKind
<1>3. PICK j \in 0..k : /\ IsKind(p, j, "full") /\ OnlyDirty(p, j + 1, k)
                        /\ DOMAIN p[k + 1].bits \subseteq DOMAIN p[j].bits
  BY <1>2 DEF Based
<1>4. CASE j = 0
  <2>1. IsKind(q, 0, "full") /\ DOMAIN q[k].bits \subseteq DOMAIN q[0].bits
    BY <1>2, <1>3, <1>4 DEF Moved, IsKind
  <2>2. OnlyDirty(q, 1, k - 1)
    BY <1>3, <1>4 DEF OnlyDirty, Moved
  <2> QED BY <1>1, <2>1, <2>2
<1>5. CASE j # 0
  <2>1. j # 1
    BY <1>3 DEF Moved, IsKind
  <2>2. q[j - 1] = p[j] /\ j - 1 \in 0..k - 1
    BY <1>1, <1>5, <2>1 DEF Moved
  <2>3. IsKind(q, j - 1, "full") /\ DOMAIN q[k].bits \subseteq DOMAIN q[j - 1].bits
    BY <1>2, <1>3, <2>2 DEF IsKind
  <2>4. OnlyDirty(q, (j - 1) + 1, k - 1)
    BY <1>3, <1>5, <2>1 DEF OnlyDirty, Moved
  <2> QED BY <2>2, <2>3, <2>4
<1> QED BY <1>4, <1>5

LEMMA MovedComplete ==
    ASSUME NEW p, NEW q, NEW last \in Nat \ {0}, Moved(p, q, last), NEW geometry,
           Complete(p, last + 1, geometry)
    PROVE  Complete(q, last, geometry)
<1>1. PICK j \in 0..last + 1 : /\ IsKind(p, j, "full") /\ OnlyDirty(p, j + 1, last + 1)
                               /\ DOMAIN p[j].bits = geometry
  BY DEF Complete
<1>2. CASE j = 0
  <2>1. IsKind(q, 0, "full") /\ DOMAIN q[0].bits = geometry
    BY <1>1, <1>2 DEF Moved, IsKind
  <2>2. OnlyDirty(q, 1, last)
    BY <1>1, <1>2 DEF OnlyDirty, Moved
  <2> QED BY <2>1, <2>2 DEF Complete
<1>3. CASE j # 0
  <2>1. j # 1
    BY <1>1 DEF Moved, IsKind
  <2>2. q[j - 1] = p[j] /\ j - 1 \in 0..last
    BY <1>3, <2>1 DEF Moved
  <2>3. IsKind(q, j - 1, "full") /\ DOMAIN q[j - 1].bits = geometry
    BY <1>1, <2>2 DEF IsKind
  <2>4. OnlyDirty(q, (j - 1) + 1, last)
    BY <1>1, <1>3, <2>1 DEF OnlyDirty, Moved
  <2> QED BY <2>2, <2>3, <2>4 DEF Complete
<1> QED BY <1>2, <1>3

LEMMA MovedNewest ==
    ASSUME NEW p, NEW q, NEW last \in Nat \ {0}, Moved(p, q, last), NEW t, NEW v,
           Newest(p, last + 1, t, v)
    PROVE  Newest(q, last, t, v)
<1>1. PICK k \in 0..last + 1 :
         /\ IsFrame(p, k) /\ t \in DOMAIN p[k].bits /\ p[k].bits[t] = v
         /\ \A i \in k + 1..last + 1 : IsFrame(p, i) => t \notin DOMAIN p[i].bits
  BY DEF Newest
<1> DEFINE n == IF k = 0 THEN 0 ELSE k - 1
<1>2. k # 1
  BY <1>1 DEF Moved, IsFrame, IsKind
<1>3. n \in 0..last /\ q[n] = p[k]
  BY <1>2 DEF Moved
<1>4. IsFrame(q, n) /\ t \in DOMAIN q[n].bits /\ q[n].bits[t] = v
  BY <1>1, <1>3 DEF IsFrame, IsKind
<1>5. \A i \in n + 1..last : IsFrame(q, i) => t \notin DOMAIN q[i].bits
  <2> SUFFICES ASSUME NEW i \in n + 1..last, IsFrame(q, i)
               PROVE  t \notin DOMAIN q[i].bits
    OBVIOUS
  <2>1. q[i] = p[i + 1] /\ i + 1 \in k + 1..last + 1
    BY <1>2, <1>3 DEF Moved
  <2>2. IsFrame(p, i + 1)
    BY <2>1 DEF IsFrame, IsKind
  <2> QED BY <1>1, <2>1, <2>2
<1> HIDE DEF n
<1> QED BY <1>3, <1>4, <1>5 DEF Newest

LEMMA MovedGone ==
    ASSUME NEW p, NEW q, NEW last \in Nat \ {0}, Moved(p, q, last), Gone(p, last + 1)
    PROVE  Gone(q, last)
<1> SUFFICES ASSUME NEW k \in 0..last, IsFrame(q, k)
             PROVE  \E i \in k + 1..last : IsKind(q, i, "destroy")
  BY DEF Gone
<1> DEFINE n == IF k = 0 THEN 0 ELSE k + 1
<1>1. q[k] = p[n] /\ n \in 0..last + 1
  BY DEF Moved
<1>2. IsFrame(p, n)
  BY <1>1 DEF IsFrame, IsKind
<1>3. PICK i \in n + 1..last + 1 : IsKind(p, i, "destroy")
  BY <1>1, <1>2 DEF Gone
<1>4. i # 1
  BY <1>3 DEF Moved, IsKind
<1>5. i - 1 \in k + 1..last /\ q[i - 1] = p[i]
  BY <1>1, <1>3, <1>4 DEF Moved
<1> QED BY <1>3, <1>5 DEF IsKind

-----------------------------------------------------------------------------
(* Third, the reader applies the message in its hand. *)
Applied(p, q, last) ==
    /\ q[1] = None /\ \A k \in 2..last : q[k] = p[k]
    /\ p[1] = None => q[0] = p[0]
    /\ IsKind(p, 1, "full") => IsKind(q, 0, "full") /\ q[0].bits = p[1].bits
    /\ IsKind(p, 1, "destroy") => q[0] = None
    /\ IsKind(p, 1, "dirty") =>
          /\ IsKind(p, 0, "full") /\ IsKind(q, 0, "full")
          /\ q[0].bits = Merge(p[0].bits, p[1].bits)
    /\ q[0] # None => q[0].kind = "full"
    /\ p[1] # None => p[1].kind \in {"full", "dirty", "destroy"}

LEMMA AppliedBased ==
    ASSUME NEW p, NEW q, NEW last \in Nat \ {0}, Applied(p, q, last), Based(p, last)
    PROVE  Based(q, last)
<1> SUFFICES ASSUME NEW k \in 0..last, IsKind(q, k, "dirty")
             PROVE  \E j \in 0..k - 1 : /\ IsKind(q, j, "full") /\ OnlyDirty(q, j + 1, k - 1)
                                        /\ DOMAIN q[k].bits \subseteq DOMAIN q[j].bits
  BY DEF Based
<1>1. k \in 2..last /\ q[k] = p[k] /\ IsKind(p, k, "dirty")
  BY DEF Applied, IsKind
<1>2. PICK j \in 0..k - 1 : /\ IsKind(p, j, "full") /\ OnlyDirty(p, j + 1, k - 1)
                            /\ DOMAIN p[k].bits \subseteq DOMAIN p[j].bits
  BY <1>1 DEF Based
<1>3. CASE j \in 2..k - 1
  <2>1. IsKind(q, j, "full") /\ OnlyDirty(q, j + 1, k - 1) /\ q[j] = p[j]
    BY <1>1, <1>2, <1>3 DEF Applied, IsKind, OnlyDirty
  <2> QED BY <1>1, <1>2, <1>3, <2>1
<1>4. CASE j = 1
  <2>1. IsKind(q, 0, "full") /\ q[0].bits = p[1].bits
    BY <1>2, <1>4 DEF Applied
  <2>2. OnlyDirty(q, 1, k - 1)
    BY <1>1, <1>2, <1>4 DEF Applied, OnlyDirty
  <2> QED BY <1>1, <1>2, <1>4, <2>1, <2>2
<1>5. CASE j = 0
  <2>1. p[1] = None \/ IsKind(p, 1, "dirty")
    BY <1>1, <1>2, <1>5 DEF OnlyDirty, IsKind
  <2>2. IsKind(q, 0, "full") /\ DOMAIN q[0].bits = DOMAIN p[0].bits
    BY <1>2, <1>5, <2>1 DEF Applied, IsKind, Merge
  <2>3. OnlyDirty(q, 1, k - 1)
    BY <1>1, <1>2, <1>5 DEF Applied, OnlyDirty
  <2> QED BY <1>1, <1>2, <1>5, <2>2, <2>3
<1> QED BY <1>1, <1>3, <1>4, <1>5

LEMMA AppliedComplete ==
    ASSUME NEW p, NEW q, NEW last \in Nat \ {0}, Applied(p, q, last), NEW geometry,
           Complete(p, last, geometry)
    PROVE  Complete(q, last, geometry)
<1>1. PICK j \in 0..last : /\ IsKind(p, j, "full") /\ OnlyDirty(p, j + 1, last)
                           /\ DOMAIN p[j].bits = geometry
  BY DEF Complete
<1>2. CASE j \in 2..last
  <2>1. IsKind(q, j, "full") /\ OnlyDirty(q, j + 1, last) /\ q[j] = p[j]
    BY <1>1, <1>2 DEF Applied, IsKind, OnlyDirty
  <2> QED BY <1>1, <2>1 DEF Complete
<1>3. CASE j = 1
  <2>1. IsKind(q, 0, "full") /\ q[0].bits = p[1].bits
    BY <1>1, <1>3 DEF Applied
  <2>2. OnlyDirty(q, 1, last)
    BY <1>1, <1>3 DEF Applied, OnlyDirty
  <2> QED BY <1>1, <1>3, <2>1, <2>2 DEF Complete
<1>4. CASE j = 0
  <2>1. p[1] = None \/ IsKind(p, 1, "dirty")
    BY <1>1, <1>4 DEF OnlyDirty, IsKind
  <2>2. IsKind(q, 0, "full") /\ DOMAIN q[0].bits = DOMAIN p[0].bits
    BY <1>1, <1>4, <2>1 DEF Applied, IsKind, Merge
  <2>3. OnlyDirty(q, 1, last)
    BY <1>1, <1>4 DEF Applied, OnlyDirty
  <2> QED BY <1>1, <1>4, <2>2, <2>3 DEF Complete
<1> QED BY <1>2, <1>3, <1>4

LEMMA AppliedNewest ==
    ASSUME NEW p, NEW q, NEW last \in Nat \ {0}, Applied(p, q, last), NEW t, NEW v,
           NEW geometry, Complete(p, last, geometry), t \in geometry,
           Newest(p, last, t, v)
    PROVE  Newest(q, last, t, v)
<1>1. PICK k \in 0..last :
         /\ IsFrame(p, k) /\ t \in DOMAIN p[k].bits /\ p[k].bits[t] = v
         /\ \A i \in k + 1..last : IsFrame(p, i) => t \notin DOMAIN p[i].bits
  BY DEF Newest
<1>2. PICK j \in 0..last : /\ IsKind(p, j, "full") /\ OnlyDirty(p, j + 1, last)
                           /\ DOMAIN p[j].bits = geometry
  BY DEF Complete
<1>3. k >= j
  BY <1>1, <1>2 DEF IsFrame
<1>4. \A i \in 2..last : i > k /\ IsFrame(q, i) => t \notin DOMAIN q[i].bits
  BY <1>1 DEF Applied, IsFrame, IsKind
<1>5. CASE k \in 2..last
  <2>1. IsFrame(q, k) /\ t \in DOMAIN q[k].bits /\ q[k].bits[t] = v
    BY <1>1, <1>5 DEF Applied, IsFrame, IsKind
  <2>2. \A i \in k + 1..last : IsFrame(q, i) => t \notin DOMAIN q[i].bits
    BY <1>4, <1>5
  <2> QED BY <2>1, <2>2 DEF Newest
<1>6. CASE k \in {0, 1}
  <2>1. \A i \in 1..last : IsFrame(q, i) => t \notin DOMAIN q[i].bits
    <3> SUFFICES ASSUME NEW i \in 1..last, IsFrame(q, i) PROVE t \notin DOMAIN q[i].bits
      OBVIOUS
    <3> i # 1
      BY DEF Applied, IsFrame, IsKind
    <3> QED BY <1>4, <1>6
  <2>2. IsKind(q, 0, "full") /\ t \in DOMAIN q[0].bits /\ q[0].bits[t] = v
    <3>1. CASE k = 1 /\ IsKind(p, 1, "full")
      BY <1>1, <3>1 DEF Applied
    <3>2. CASE k = 1 /\ IsKind(p, 1, "dirty")
      <4>1. j = 0
        BY <1>2, <1>3, <3>2 DEF IsKind
      <4> QED BY <1>1, <1>2, <3>2, <4>1 DEF Applied, Merge, IsKind
    <3>3. CASE k = 0
      <4>1. j = 0
        BY <1>3, <3>3
      <4>2. p[1] = None \/ IsKind(p, 1, "dirty")
        BY <1>2, <4>1 DEF OnlyDirty, IsKind
      <4>3. CASE p[1] = None
        BY <1>1, <1>2, <3>3, <4>1, <4>3 DEF Applied, IsKind
      <4>4. CASE IsKind(p, 1, "dirty")
        <5>1. t \notin DOMAIN p[1].bits
          BY <1>1, <3>3, <4>4 DEF IsFrame
        <5> QED BY <1>1, <3>3, <4>4, <5>1 DEF Applied, Merge
      <4> QED BY <4>2, <4>3, <4>4
    <3> QED BY <1>1, <1>6, <3>1, <3>2, <3>3 DEF IsFrame
  <2> QED BY <2>1, <2>2 DEF Newest, IsFrame
<1> QED BY <1>5, <1>6

LEMMA AppliedGone ==
    ASSUME NEW p, NEW q, NEW last \in Nat \ {0}, Applied(p, q, last), Gone(p, last)
    PROVE  Gone(q, last)
<1> SUFFICES ASSUME NEW k \in 0..last, IsFrame(q, k)
             PROVE  \E i \in k + 1..last : IsKind(q, i, "destroy")
  BY DEF Gone
<1>1. k # 1
  BY DEF Applied, IsFrame, IsKind
<1>2. CASE k \in 2..last
  <2>1. IsFrame(p, k)
    BY <1>2 DEF Applied, IsFrame, IsKind
  <2>2. PICK i \in k + 1..last : IsKind(p, i, "destroy")
    BY <2>1 DEF Gone
  <2> QED BY <1>2, <2>2 DEF Applied, IsKind
<1>3. CASE k = 0
  <2>1. \E n \in {0, 1} : IsFrame(p, n) /\ ~IsKind(p, 1, "destroy")
    BY <1>3 DEF Applied, IsFrame, IsKind
  <2>2. PICK n \in {0, 1} : IsFrame(p, n) /\ ~IsKind(p, 1, "destroy")
    BY <2>1
  <2>3. PICK i \in n + 1..last : IsKind(p, i, "destroy")
    BY <2>2 DEF Gone
  <2>4. i \in 2..last
    BY <2>2, <2>3
  <2> QED BY <1>3, <2>3, <2>4 DEF Applied, IsKind
<1> QED BY <1>1, <1>2, <1>3

-----------------------------------------------------------------------------
(* Types. *)

LEMMA PictureFunctions ==
    \A f : f \in Picture <=> \E d \in SUBSET Tiles : f \in [d -> 0..MaxContent]
BY DEF Picture

LEMMA SurfaceFields ==
    ASSUME NEW s \in Surface
    PROVE  /\ s \in [bits : Picture, bounds : SUBSET Tiles, presented : BOOLEAN]
           /\ s.bits \in Picture /\ s.bounds \subseteq DOMAIN s.bits /\ s.presented \in BOOLEAN
           /\ DOMAIN s.bits \subseteq Tiles /\ s # None
  <1>1. /\ s.bits \in Picture /\ s.bounds \subseteq DOMAIN s.bits /\ s.presented \in BOOLEAN
        /\ s \in [bits : Picture, bounds : SUBSET Tiles, presented : BOOLEAN]
    BY DEF Surface
  <1>2. DOMAIN s.bits \subseteq Tiles
    BY <1>1, PictureFunctions
  <1> QED BY <1>1, <1>2, NoneAssumption

LEMMA SurfaceType ==
    ASSUME NEW bits \in Picture, NEW bounds, bounds \subseteq DOMAIN bits,
           NEW presented \in BOOLEAN
    PROVE  [bits |-> bits, bounds |-> bounds, presented |-> presented] \in Surface
<1>1. bounds \subseteq Tiles
  BY PictureFunctions
<1> QED BY <1>1 DEF Surface

LEMMA MessageFields ==
    ASSUME NEW m \in Message
    PROVE  /\ m.kind \in {"full", "dirty", "destroy"} /\ m.hwnd \in Hwnds /\ m # None
           /\ m.kind # "destroy" => m.bits \in Picture
BY NoneAssumption DEF Message

LEMMA FramebufferFields ==
    ASSUME NEW b \in Framebuffer
    PROVE  b # None /\ b.owner \in Generations /\ b.bits \in Picture
BY NoneAssumption DEF Framebuffer

LEMMA NewSurfaceType ==
    ASSUME NEW geometry \in Geometries
    PROVE  NewSurface(geometry) \in Surface /\ ~NewSurface(geometry).presented
<1>1. geometry \subseteq Tiles
  BY DEF Tiles
<1>2. [t \in geometry |-> 0] \in [geometry -> 0..MaxContent]
  BY BoundsAssumption
<1>3. [t \in geometry |-> 0] \in Picture
  BY <1>1, <1>2, PictureFunctions
<1> QED BY <1>3 DEF NewSurface, Surface

LEMMA FrameType ==
    ASSUME NEW h \in Hwnds, NEW bits \in Picture, NEW dirty \in SUBSET DOMAIN bits
    PROVE  /\ Frame(h, bits, dirty) \in Message /\ Frame(h, bits, dirty).hwnd = h
           /\ Frame(h, bits, dirty).kind \in {"full", "dirty"}
<1>1. PICK d \in SUBSET Tiles : bits \in [d -> 0..MaxContent]
  BY PictureFunctions
<1>2. [t \in dirty |-> bits[t]] \in [dirty -> 0..MaxContent] /\ dirty \in SUBSET Tiles
  BY <1>1
<1>3. [t \in dirty |-> bits[t]] \in Picture
  BY <1>2, PictureFunctions
<1> QED BY <1>3 DEF Frame, Message

LEMMA MergeType ==
    ASSUME NEW old \in Picture, NEW new \in Picture
    PROVE  Merge(old, new) \in Picture /\ DOMAIN Merge(old, new) = DOMAIN old
<1>1. PICK d \in SUBSET Tiles : old \in [d -> 0..MaxContent]
  BY PictureFunctions
<1>2. PICK e \in SUBSET Tiles : new \in [e -> 0..MaxContent]
  BY PictureFunctions
<1>3. Merge(old, new) \in [d -> 0..MaxContent]
  BY <1>1, <1>2 DEF Merge
<1> QED BY <1>3, PictureFunctions DEF Merge

(* A message is written to the connection in use, or to a new one. *)
LEMMA WrittenType ==
    ASSUME TypeOK, open => generation > 0, NEW m \in Message, Written(m)
    PROVE  /\ generation' \in Generations /\ open' = TRUE /\ generation' = Sending
           /\ generation' \in 0..MaxGeneration
           /\ conn' \in [Generations -> {"none", "up", "shut", "ended"}]
           /\ conn'[generation'] = "up"
           /\ wire' \in [Generations -> Seq(Message)]
           /\ wire' = [wire EXCEPT ![generation'] = Append(wire[generation'], m)]
           /\ open => generation' = generation /\ conn' = conn
           /\ ~open => generation' = generation + 1 /\ conn' = [conn EXCEPT ![generation'] = "up"]
<1>1. generation' = Sending /\ open' = TRUE
  BY DEF Written, Connect
<1>2. conn' = [conn EXCEPT ![Sending] = IF open THEN conn[Sending] ELSE "up"]
  BY DEF Written, Connect
<1>3. conn'[generation'] = "up"
  BY DEF Written
<1>4. wire' = [wire EXCEPT ![generation'] = Append(wire[generation'], m)]
  BY DEF Written
<1>5. generation \in 0..MaxGeneration /\ open \in BOOLEAN
      /\ conn \in [Generations -> {"none", "up", "shut", "ended"}]
      /\ wire \in [Generations -> Seq(Message)]
  BY DEF TypeOK
<1>6. open => generation' = generation /\ conn' = conn
  BY <1>1, <1>2, <1>5 DEF Sending
<1>7. ~open => generation' = generation + 1 /\ generation < MaxGeneration
               /\ conn' = [conn EXCEPT ![generation'] = "up"]
  BY <1>1, <1>2 DEF Sending, Written, Connect, CanConnect
<1>8. generation' \in Generations
  <2>1. CASE ~open
    BY <1>5, <1>7, <2>1, BoundsAssumption DEF Generations
  <2>2. CASE open
    BY <1>5, <1>6, <2>2, BoundsAssumption DEF Generations
  <2> QED BY <1>5, <2>1, <2>2
<1>9. conn' \in [Generations -> {"none", "up", "shut", "ended"}]
  BY <1>5, <1>6, <1>7, <1>8
<1>10. wire' \in [Generations -> Seq(Message)]
  <2>1. Append(wire[generation'], m) \in Seq(Message)
    BY <1>5, <1>8
  <2> QED BY <1>4, <1>5, <1>8, <2>1
<1>11. generation' \in 0..MaxGeneration
  BY <1>8, BoundsAssumption DEF Generations
<1> QED BY <1>1, <1>3, <1>4, <1>6, <1>7, <1>8, <1>9, <1>10, <1>11

DriverTypes == /\ generation \in 0..MaxGeneration /\ open \in BOOLEAN
               /\ baseline \in [Hwnds -> 0..MaxGeneration]
               /\ wire \in [Generations -> Seq(Message)]
               /\ conn \in [Generations -> {"none", "up", "shut", "ended"}]
WindowTypes ==
    /\ life \in [Hwnds -> {"free", "live", "destroying", "forgetting", "releasing"}]
    /\ current \in [Hwnds -> Surface \cup {None}]
    /\ created \in [Hwnds -> Surface \cup {None}]
    /\ content \in 0..MaxContent
HostTypes == /\ hand \in [Generations -> Message \cup {None}]
             /\ host \in [Hwnds -> Framebuffer \cup {None}]

LEMMA TypeParts == TypeOK <=> DriverTypes /\ WindowTypes /\ HostTypes
BY DEF TypeOK, DriverTypes, WindowTypes, HostTypes

LEMMA WriteFailsType ==
    ASSUME DriverTypes, WriteFails \/ CannotConnect
    PROVE  /\ DriverTypes' /\ UNCHANGED <<generation, baseline, wire, conn>>
           /\ open' = FALSE
BY DEF DriverTypes, WriteFails, CannotConnect, driver

LEMMA PresentType ==
    ASSUME TypeOK, open => generation > 0, NEW h \in Hwnds, NEW bits \in Picture,
           NEW dirty \in SUBSET DOMAIN bits, Present(h, bits, dirty)
    PROVE  DriverTypes'
<1>1. CASE WriteFails \/ CannotConnect
  BY <1>1, WriteFailsType, TypeParts
<1>2. CASE Written(Frame(h, bits, dirty)) /\ baseline' = [baseline EXCEPT ![h] = generation']
  <2>1. Frame(h, bits, dirty) \in Message
    BY FrameType
  <2>2. /\ generation' \in 0..MaxGeneration /\ open' = TRUE
        /\ conn' \in [Generations -> {"none", "up", "shut", "ended"}]
        /\ wire' \in [Generations -> Seq(Message)]
    BY <1>2, <2>1, WrittenType
  <2>3. baseline' \in [Hwnds -> 0..MaxGeneration]
    BY <1>2, <2>2 DEF TypeOK
  <2> QED BY <2>2, <2>3 DEF DriverTypes
<1> QED BY <1>1, <1>2 DEF Present

LEMMA DestroySentType ==
    ASSUME TypeOK, open => generation > 0, NEW h \in Hwnds,
           Send([kind |-> "destroy", hwnd |-> h])
    PROVE  DriverTypes'
<1>1. CASE WriteFails \/ CannotConnect
  BY <1>1, WriteFailsType, TypeParts
<1>2. CASE Written([kind |-> "destroy", hwnd |-> h]) /\ UNCHANGED baseline
  <2>1. [kind |-> "destroy", hwnd |-> h] \in Message
    BY DEF Message
  <2>2. /\ generation' \in 0..MaxGeneration /\ open' = TRUE
        /\ conn' \in [Generations -> {"none", "up", "shut", "ended"}]
        /\ wire' \in [Generations -> Seq(Message)]
    BY <1>2, <2>1, WrittenType
  <2> QED BY <1>2, <2>2 DEF DriverTypes, TypeOK
<1> QED BY <1>1, <1>2 DEF Send

LEMMA ConnectType ==
    ASSUME TypeOK, ~open, Connect
    PROVE  /\ generation' = generation + 1 /\ generation' \in Generations
           /\ generation' \in 0..MaxGeneration /\ open' = TRUE
           /\ conn' = [conn EXCEPT ![generation'] = "up"]
           /\ conn' \in [Generations -> {"none", "up", "shut", "ended"}]
           /\ PromptTeardown => \A g \in 1..generation : conn[g] = "ended"
<1>1. /\ generation < MaxGeneration /\ generation' = generation + 1 /\ open' = TRUE
      /\ conn' = [conn EXCEPT ![generation'] = "up"]
      /\ PromptTeardown => \A g \in 1..generation : conn[g] = "ended"
  BY DEF Connect, CanConnect, Sending
<1>2. generation \in 0..MaxGeneration /\ conn \in [Generations -> {"none", "up", "shut", "ended"}]
  BY DEF TypeOK
<1>3. generation' \in Generations /\ generation' \in 0..MaxGeneration
  BY <1>1, <1>2, BoundsAssumption DEF Generations
<1> QED BY <1>1, <1>2, <1>3

LEMMA TypeInit == Init => TypeOK
<1> SUFFICES ASSUME Init PROVE TypeOK
  OBVIOUS
<1>1. <<>> \in Seq(Message)
  OBVIOUS
<1>2. 0 \in 0..MaxGeneration /\ 0 \in 0..MaxContent
  BY BoundsAssumption
<1> QED BY <1>1, <1>2 DEF Init, TypeOK

LEMMA WindowStepType ==
    ASSUME TypeOK, open => generation > 0, NEW h \in Hwnds, WindowStep(h)
    PROVE  TypeOK'
<1> USE DEF driver, windows, hostVars
<1>0. DriverTypes /\ WindowTypes /\ HostTypes
  BY TypeParts
<1>1. CASE CreateWindow(h)
  BY <1>0, <1>1 DEF CreateWindow, TypeOK, DriverTypes, WindowTypes, HostTypes
<1>2. CASE RegisterSurface(h)
  BY <1>0, <1>2 DEF RegisterSurface, TypeOK, DriverTypes, WindowTypes, HostTypes
<1>3. ASSUME NEW geometry \in Geometries, CreateSurface(h, geometry) PROVE TypeOK'
  <2>1. created' \in [Hwnds -> Surface \cup {None}]
    BY <1>0, <1>3, NewSurfaceType DEF CreateSurface, WindowTypes
  <2> QED BY <1>0, <1>3, <2>1 DEF CreateSurface, TypeOK, DriverTypes, WindowTypes, HostTypes
<1>4. ASSUME NEW t \in Tiles, Draw(h, t) PROVE TypeOK'
  <2> DEFINE s == current[h]
             drawn == [s.bits EXCEPT ![t] = content + 1]
             n == [bits |-> drawn, bounds |-> s.bounds \cup {t}, presented |-> s.presented]
  <2>1. s \in Surface /\ t \in DOMAIN s.bits /\ content + 1 \in 0..MaxContent
    BY <1>0, <1>4, BoundsAssumption DEF Draw, WindowTypes
  <2>2. PICK d \in SUBSET Tiles : s.bits \in [d -> 0..MaxContent]
    BY <2>1, SurfaceFields, PictureFunctions
  <2>3. drawn \in Picture /\ DOMAIN drawn = DOMAIN s.bits
    <3>1. drawn \in [d -> 0..MaxContent]
      BY <2>1, <2>2
    <3> QED BY <2>2, <3>1, PictureFunctions
  <2>4. n \in Surface
    <3> HIDE DEF drawn, s
    <3>1. s.bounds \cup {t} \subseteq DOMAIN drawn /\ s.presented \in BOOLEAN
      BY <2>1, <2>3, SurfaceFields
    <3> QED BY <2>1, <2>3, <3>1, SurfaceType
  <2>5. current' = [current EXCEPT ![h] = n]
    BY <1>4 DEF Draw, Drawn
  <2> HIDE DEF n
  <2>6. WindowTypes'
    BY <1>0, <1>4, <2>1, <2>4, <2>5 DEF Draw, WindowTypes
  <2> QED BY <1>0, <1>4, <2>6 DEF Draw, TypeOK, DriverTypes, WindowTypes, HostTypes
<1>5. CASE Flush(h)
  <2> DEFINE s == current[h]
             dirty == IF s.presented THEN s.bounds ELSE DOMAIN s.bits
  <2>1. s \in Surface
    BY <1>0, <1>5 DEF Flush, WindowTypes
  <2>2. s.bits \in Picture /\ dirty \in SUBSET DOMAIN s.bits
    BY <2>1, SurfaceFields
  <2>3. Present(h, s.bits, dirty)
    BY <1>5 DEF Flush
  <2>4. DriverTypes'
    <3> HIDE DEF s, dirty
    <3> QED BY <2>2, <2>3, PresentType
  <2>5. [bits |-> s.bits, bounds |-> {}, presented |-> TRUE] \in Surface
    <3> HIDE DEF s
    <3> QED BY <2>1, <2>2, SurfaceType
  <2>6. current' = [current EXCEPT ![h] =
                      [bits |-> s.bits, bounds |-> {}, presented |-> TRUE]]
    BY <1>0, <1>5, <2>1, SurfaceFields DEF Flush, WindowTypes
  <2>7. WindowTypes'
    <3> HIDE DEF s
    <3> QED BY <1>0, <1>5, <2>5, <2>6 DEF Flush, WindowTypes
  <2> QED BY <1>0, <1>5, <2>4, <2>7 DEF Flush, TypeOK, DriverTypes, WindowTypes, HostTypes
<1>6. CASE PresentNow(h)
  <2> DEFINE s == IF created[h] # None THEN created[h] ELSE current[h]
             n == [bits |-> s.bits, bounds |-> s.bounds, presented |-> TRUE]
  <2>1. s \in Surface
    BY <1>0, <1>6 DEF PresentNow, WindowTypes
  <2>2. s.bits \in Picture /\ s.bounds \subseteq DOMAIN s.bits
    BY <2>1, SurfaceFields
  <2>3. Present(h, s.bits, DOMAIN s.bits)
    BY <1>6 DEF PresentNow
  <2>4. DriverTypes'
    <3> HIDE DEF s
    <3> QED BY <2>2, <2>3, PresentType
  <2>5. n \in Surface
    <3> HIDE DEF s
    <3> QED BY <2>1, <2>2, SurfaceType
  <2>6. \/ created' = [created EXCEPT ![h] = n] /\ UNCHANGED current
        \/ current' = [current EXCEPT ![h] = n] /\ UNCHANGED created
    BY <1>0, <1>6, <2>1, SurfaceFields DEF PresentNow, WindowTypes
  <2>7. WindowTypes'
    <3> HIDE DEF n
    <3> QED BY <1>0, <1>6, <2>5, <2>6 DEF PresentNow, WindowTypes
  <2> QED BY <1>0, <1>6, <2>4, <2>7 DEF PresentNow, TypeOK, DriverTypes, WindowTypes, HostTypes
<1>7. CASE DestroyWindow(h)
  BY <1>0, <1>7 DEF DestroyWindow, TypeOK, DriverTypes, WindowTypes, HostTypes
<1>8. CASE ThreadExits(h)
  BY <1>0, <1>8 DEF ThreadExits, TypeOK, DriverTypes, WindowTypes, HostTypes
<1>9. CASE SendDestroy(h)
  <2>1. DriverTypes'
    BY <1>9, DestroySentType DEF SendDestroy
  <2> QED BY <1>0, <1>9, <2>1 DEF SendDestroy, TypeOK, DriverTypes, WindowTypes, HostTypes
<1>10. CASE Forget(h)
  <2>1. baseline' \in [Hwnds -> 0..MaxGeneration]
    BY <1>0, <1>10, BoundsAssumption DEF Forget, DriverTypes
  <2> QED BY <1>0, <1>10, <2>1 DEF Forget, TypeOK, DriverTypes, WindowTypes, HostTypes
<1>11. CASE ReleaseSurface(h)
  BY <1>0, <1>11 DEF ReleaseSurface, TypeOK, DriverTypes, WindowTypes, HostTypes
<1> QED BY <1>1, <1>2, <1>3, <1>4, <1>5, <1>6, <1>7, <1>8, <1>9, <1>10, <1>11
        DEF WindowStep

(* What applying a message does to the framebuffers. *)
LEMMA AppliesCases ==
    ASSUME TypeOK, NEW g \in Generations, HostApplies(g)
    PROVE  LET m == hand[g]
               b == host[m.hwnd] IN
           /\ m \in Message
           /\ host' \in [Hwnds -> Framebuffer \cup {None}]
           /\ \A h \in Hwnds : h # m.hwnd => host'[h] = host[h]
           /\ m.kind = "full" => host'[m.hwnd] = [owner |-> g, bits |-> m.bits]
           /\ m.kind = "dirty" /\ Accepted(g, m) =>
                 host'[m.hwnd] = [owner |-> g, bits |-> Merge(b.bits, m.bits)]
           /\ m.kind = "dirty" /\ ~Accepted(g, m) => host' = host
           /\ m.kind = "destroy" =>
                 host'[m.hwnd] = IF b # None /\ b.owner = g THEN None ELSE b
           /\ hand' = [hand EXCEPT ![g] = None]
<1> DEFINE m == hand[g]
           b == host[m.hwnd]
<1>1. m \in Message /\ host \in [Hwnds -> Framebuffer \cup {None}]
  BY DEF TypeOK, HostApplies
<1>2. m.hwnd \in Hwnds /\ b \in Framebuffer \cup {None}
  BY <1>1, MessageFields
<1>3. hand' = [hand EXCEPT ![g] = None]
  BY DEF HostApplies
<1>4. CASE m.kind = "full"
  <2>1. host' = [host EXCEPT ![m.hwnd] = [owner |-> g, bits |-> m.bits]]
    BY <1>4 DEF HostApplies
  <2>2. [owner |-> g, bits |-> m.bits] \in Framebuffer
    BY <1>1, <1>4, MessageFields DEF Framebuffer
  <2> HIDE DEF m, b
  <2>3. /\ host' \in [Hwnds -> Framebuffer \cup {None}]
        /\ \A h \in Hwnds : h # m.hwnd => host'[h] = host[h]
        /\ host'[m.hwnd] = [owner |-> g, bits |-> m.bits]
    BY <1>1, <1>2, <2>1, <2>2
  <2> QED BY <1>1, <1>3, <1>4, <2>3 DEF m, b
<1>5. CASE m.kind = "dirty" /\ Accepted(g, m)
  <2>1. host' = [host EXCEPT ![m.hwnd].bits = Merge(b.bits, m.bits)]
    BY <1>5 DEF HostApplies, ApplyDirty
  <2>2. b \in Framebuffer /\ b.owner = g
    BY <1>2, <1>5 DEF Accepted
  <2>3. m.bits \in Picture /\ b.bits \in Picture
    BY <1>1, <1>5, <2>2, MessageFields, FramebufferFields
  <2>4. [owner |-> g, bits |-> Merge(b.bits, m.bits)] \in Framebuffer
    BY <2>3, MergeType DEF Framebuffer
  <2>5. b = [owner |-> g, bits |-> b.bits]
    BY <2>2 DEF Framebuffer
  <2>6. host'[m.hwnd] = [owner |-> g, bits |-> Merge(b.bits, m.bits)]
    BY <1>1, <1>2, <2>1, <2>5
  <2>7. \A h \in Hwnds : h # m.hwnd => host'[h] = host[h]
    BY <1>1, <1>2, <2>1
  <2>8. host' \in [Hwnds -> Framebuffer \cup {None}]
    BY <1>1, <1>2, <2>1, <2>4, <2>6, <2>7
  <2> QED BY <1>1, <1>3, <1>5, <2>6, <2>7, <2>8
<1>6. CASE m.kind = "dirty" /\ ~Accepted(g, m)
  <2>1. host' = host
    BY <1>6 DEF HostApplies, ApplyDirty
  <2> QED BY <1>1, <1>3, <1>6, <2>1
<1>7. CASE m.kind = "destroy"
  <2>1. host' = [host EXCEPT ![m.hwnd] = IF b # None /\ b.owner = g THEN None ELSE b]
    BY <1>7 DEF HostApplies, DestroyOwn
  <2> HIDE DEF m, b
  <2>2. /\ host' \in [Hwnds -> Framebuffer \cup {None}]
        /\ \A h \in Hwnds : h # m.hwnd => host'[h] = host[h]
        /\ host'[m.hwnd] = IF b # None /\ b.owner = g THEN None ELSE b
    BY <1>1, <1>2, <2>1
  <2> QED BY <1>1, <1>3, <1>7, <2>2 DEF m, b
<1> QED BY <1>1, <1>4, <1>5, <1>6, <1>7, MessageFields

LEMMA HostStepType ==
    ASSUME TypeOK, NEW g \in Generations, HostStep(g)
    PROVE  TypeOK'
<1> USE DEF driver, windows, hostVars
<1>0. /\ wire[g] \in Seq(Message) /\ wire \in [Generations -> Seq(Message)]
      /\ hand \in [Generations -> Message \cup {None}]
  BY DEF TypeOK
<1>1. CASE HostReads(g)
  <2>1. Head(wire[g]) \in Message /\ Tail(wire[g]) \in Seq(Message)
    BY <1>0, <1>1 DEF HostReads
  <2>2. wire' \in [Generations -> Seq(Message)] /\ hand' \in [Generations -> Message \cup {None}]
    BY <1>0, <1>1, <2>1 DEF HostReads
  <2> QED BY <1>1, <2>2 DEF HostReads, TypeOK
<1>2. CASE HostApplies(g)
  <2>1. host' \in [Hwnds -> Framebuffer \cup {None}] /\ hand' = [hand EXCEPT ![g] = None]
    BY <1>2, AppliesCases
  <2>2. hand' \in [Generations -> Message \cup {None}]
    BY <1>0, <2>1
  <2> QED BY <1>2, <2>1, <2>2 DEF HostApplies, TypeOK
<1>3. CASE HostShutsDown(g)
  <2>1. <<>> \in Seq(Message)
    OBVIOUS
  <2>2. wire' \in [Generations -> Seq(Message)]
    BY <1>0, <1>3, <2>1 DEF HostShutsDown
  <2> QED BY <1>3, <2>2 DEF HostShutsDown, TypeOK
<1>4. CASE HostReaderEnds(g)
  BY <1>4 DEF HostReaderEnds, TypeOK
<1> QED BY <1>1, <1>2, <1>3, <1>4 DEF HostStep

LEMMA TypeStep ==
    ASSUME TypeOK, open => generation > 0, [Next]_vars
    PROVE  TypeOK'
<1> USE DEF driver, windows, hostVars
<1>1. CASE \E h \in Hwnds : WindowStep(h)
  BY <1>1, WindowStepType
<1>2. CASE \E g \in Generations : HostStep(g)
  BY <1>2, HostStepType
<1>3. CASE Reconnect
  <2>1. /\ generation' \in 0..MaxGeneration /\ open' = TRUE
        /\ conn' \in [Generations -> {"none", "up", "shut", "ended"}]
    BY <1>3, ConnectType DEF Reconnect
  <2> QED BY <1>3, <2>1 DEF Reconnect, TypeOK
<1>4. CASE SeesHostGone
  BY <1>4 DEF SeesHostGone, WriteFails, TypeOK
<1>5. CASE InputGivesUp
  BY <1>5 DEF InputGivesUp, TypeOK
<1>6. CASE UNCHANGED vars
  BY <1>6 DEF vars, TypeOK
<1> QED BY <1>1, <1>2, <1>3, <1>4, <1>5, <1>6 DEF Next

-----------------------------------------------------------------------------
(* The connections and the surfaces. *)

(* A new connection starts with nothing on its way and no framebuffer of its own. *)
LEMMA NewConnection ==
    ASSUME PromptTeardown, TypeOK, ConnectionsOK, ~open, Connect
    PROVE  /\ wire[generation'] = <<>> /\ hand[generation'] = None
           /\ conn[generation'] = "none"
           /\ \A h \in Hwnds : host[h] # None => host[h].owner # generation'
           /\ \A g \in Generations : g < generation' => conn[g] = "ended"
           /\ \A h \in Hwnds : baseline[h] < generation' /\ baseline[h] \in Nat
           /\ generation' > 0
<1>0. generation \in Nat
  BY DEF TypeOK
<1>1. /\ generation' = generation + 1 /\ generation' \in Generations /\ generation \in Nat
      /\ \A g \in 1..generation : conn[g] = "ended"
  BY <1>0, ConnectType
<1>2. conn[generation'] = "none"
  BY <1>1 DEF ConnectionsOK
<1>3. \A g \in Generations : g < generation' => conn[g] = "ended"
  BY <1>1 DEF Generations
<1>4. \A h \in Hwnds : baseline[h] < generation' /\ baseline[h] \in Nat
  BY <1>1, BoundsAssumption DEF ConnectionsOK, TypeOK
<1>5. /\ wire[generation'] = <<>> /\ hand[generation'] = None
      /\ \A h \in Hwnds : host[h] # None => host[h].owner # generation'
  BY <1>1, <1>2 DEF ConnectionsOK
<1>6. generation' > 0
  BY <1>1
<1> QED BY <1>2, <1>3, <1>4, <1>5, <1>6

LEMMA WrittenConnections ==
    ASSUME PromptTeardown, TypeOK, ConnectionsOK, NEW m \in Message, Written(m),
           UNCHANGED <<hand, host>>, \A h \in Hwnds : baseline'[h] \in {baseline[h], generation'}
    PROVE  ConnectionsOK'
<1> DEFINE new == generation'
<1>0. open => generation > 0
  BY DEF ConnectionsOK
<1>1. /\ new \in Generations /\ open' = TRUE /\ conn'[new] = "up" /\ new \in 0..MaxGeneration
      /\ wire' = [wire EXCEPT ![new] = Append(wire[new], m)]
      /\ open => new = generation /\ conn' = conn
      /\ ~open => new = generation + 1 /\ conn' = [conn EXCEPT ![new] = "up"]
  BY <1>0, WrittenType
<1>2. new > 0 /\ new \in Nat /\ generation \in Nat
  BY <1>1, BoundsAssumption DEF Generations, TypeOK
<1>3. /\ wire \in [Generations -> Seq(Message)] /\ open \in BOOLEAN
      /\ conn \in [Generations -> {"none", "up", "shut", "ended"}]
      /\ \A h \in Hwnds : baseline[h] \in Nat
  BY BoundsAssumption DEF TypeOK
<1>4. ~open => Connect
  BY DEF Written
<1>5. ASSUME NEW g \in Generations
      PROVE  /\ g < new => conn'[g] = "ended"
             /\ g > new => conn'[g] = "none"
             /\ g # new => wire'[g] = wire[g] /\ conn'[g] = conn[g]
  <2>1. g # new => wire'[g] = wire[g] /\ conn'[g] = conn[g]
    BY <1>1, <1>3
  <2>2. CASE open
    BY <1>1, <2>2 DEF ConnectionsOK
  <2>3. CASE ~open
    <3>1. g < new => conn[g] = "ended"
      BY <1>4, <2>3, NewConnection
    <3>2. g > new => conn[g] = "none"
      BY <1>1, <1>2, <2>3 DEF ConnectionsOK, Generations
    <3> QED BY <1>1, <1>2, <2>1, <3>1, <3>2 DEF Generations
  <2> QED BY <1>3, <2>1, <2>2, <2>3
<1>6. \A h \in Hwnds : baseline'[h] <= new
  BY <1>1, <1>2, <1>3 DEF ConnectionsOK
<1>7. ASSUME NEW g \in Generations, conn'[g] \in {"none", "ended"}
      PROVE  /\ wire'[g] = <<>> /\ hand'[g] = None
             /\ \A h \in Hwnds : host'[h] # None => host'[h].owner # g
  <2>1. g # new /\ conn[g] \in {"none", "ended"} /\ wire'[g] = wire[g]
    BY <1>1, <1>5, <1>7
  <2> QED BY <2>1 DEF ConnectionsOK
<1> HIDE DEF new
<1> QED BY <1>1, <1>2, <1>5, <1>6, <1>7 DEF ConnectionsOK, new

LEMMA ClosedConnections ==
    ASSUME ConnectionsOK, UNCHANGED <<generation, wire, conn, hand, host>>,
           open' => open, \A h \in Hwnds : baseline'[h] = baseline[h]
    PROVE  ConnectionsOK'
BY DEF ConnectionsOK

LEMMA PresentConnections ==
    ASSUME PromptTeardown, TypeOK, ConnectionsOK, NEW h \in Hwnds, NEW bits \in Picture,
           NEW dirty \in SUBSET DOMAIN bits, Present(h, bits, dirty),
           UNCHANGED <<hand, host>>
    PROVE  ConnectionsOK'
<1>1. CASE WriteFails \/ CannotConnect
  BY <1>1, WriteFailsType, TypeParts, ClosedConnections
<1>2. CASE Written(Frame(h, bits, dirty)) /\ baseline' = [baseline EXCEPT ![h] = generation']
  <2>1. \A k \in Hwnds : baseline'[k] \in {baseline[k], generation'}
    BY <1>2 DEF TypeOK
  <2> QED BY <1>2, <2>1, FrameType, WrittenConnections
<1> QED BY <1>1, <1>2 DEF Present

LEMMA WindowStepConnections ==
    ASSUME PromptTeardown, TypeOK, ConnectionsOK, NEW h \in Hwnds, WindowStep(h)
    PROVE  ConnectionsOK'
<1> USE DEF driver, windows, hostVars
<1>1. CASE \/ CreateWindow(h) \/ RegisterSurface(h) \/ \E G \in Geometries : CreateSurface(h, G)
           \/ \E t \in Tiles : Draw(h, t)
           \/ DestroyWindow(h) \/ ThreadExits(h) \/ ReleaseSurface(h)
  <2>1. UNCHANGED <<generation, open, baseline, wire, conn, hand, host>>
    BY <1>1 DEF CreateWindow, RegisterSurface, CreateSurface, Draw, DestroyWindow,
                ThreadExits, ReleaseSurface
  <2> QED BY <2>1, ClosedConnections
<1>2. CASE Flush(h)
  <2> DEFINE s == current[h]
             dirty == IF s.presented THEN s.bounds ELSE DOMAIN s.bits
  <2>1. s \in Surface
    BY <1>2 DEF Flush, TypeOK
  <2>2. s.bits \in Picture /\ dirty \in SUBSET DOMAIN s.bits
    BY <2>1, SurfaceFields
  <2>3. Present(h, s.bits, dirty) /\ UNCHANGED <<hand, host>>
    BY <1>2 DEF Flush
  <2> HIDE DEF s, dirty
  <2> QED BY <2>2, <2>3, PresentConnections
<1>3. CASE PresentNow(h)
  <2> DEFINE s == IF created[h] # None THEN created[h] ELSE current[h]
  <2>1. s \in Surface
    BY <1>3 DEF PresentNow, TypeOK
  <2>2. s.bits \in Picture
    BY <2>1, SurfaceFields
  <2>3. Present(h, s.bits, DOMAIN s.bits) /\ UNCHANGED <<hand, host>>
    BY <1>3 DEF PresentNow
  <2> HIDE DEF s
  <2> QED BY <2>2, <2>3, PresentConnections
<1>4. CASE SendDestroy(h)
  <2> DEFINE m == [kind |-> "destroy", hwnd |-> h]
  <2>1. CASE WriteFails \/ CannotConnect
    BY <1>4, <2>1, WriteFailsType, TypeParts, ClosedConnections DEF SendDestroy
  <2>2. CASE Written(m) /\ UNCHANGED baseline
    <3>1. m \in Message
      BY DEF Message
    <3>2. UNCHANGED <<hand, host>>
      BY <1>4 DEF SendDestroy
    <3> HIDE DEF m
    <3> QED BY <2>2, <3>1, <3>2, WrittenConnections
  <2> QED BY <1>4, <2>1, <2>2 DEF SendDestroy, Send
<1>5. CASE Forget(h)
  <2>1. \A k \in Hwnds : baseline'[k] <= generation
    BY <1>5 DEF Forget, ConnectionsOK, TypeOK
  <2> QED BY <1>5, <2>1 DEF Forget, ConnectionsOK
<1> QED BY <1>1, <1>2, <1>3, <1>4, <1>5 DEF WindowStep

LEMMA ConnectionsStep ==
    ASSUME PromptTeardown, TypeOK, ConnectionsOK, [Next]_vars
    PROVE  ConnectionsOK'
<1> USE DEF driver, windows, hostVars
<1>0. /\ conn \in [Generations -> {"none", "up", "shut", "ended"}]
      /\ wire \in [Generations -> Seq(Message)] /\ hand \in [Generations -> Message \cup {None}]
      /\ generation \in Nat /\ open \in BOOLEAN /\ \A g \in Generations : g \in Nat \ {0}
  BY BoundsAssumption DEF TypeOK, Generations
<1>1. CASE \E h \in Hwnds : WindowStep(h)
  BY <1>1, WindowStepConnections
<1>2. ASSUME NEW g \in Generations, HostStep(g) PROVE ConnectionsOK'
  <2>1. CASE HostReads(g)
    <3>1. conn[g] = "up" /\ \A k \in Generations : k # g => wire'[k] = wire[k] /\ hand'[k] = hand[k]
      BY <1>0, <2>1 DEF HostReads
    <3> QED BY <2>1, <3>1 DEF HostReads, ConnectionsOK
  <2>2. CASE HostApplies(g)
    <3> DEFINE m == hand[g]
    <3>1. hand' = [hand EXCEPT ![g] = None] /\ m \in Message /\ m # None
      BY <2>2, AppliesCases DEF HostApplies
    <3>2. conn[g] \notin {"none", "ended"}
      BY <3>1 DEF ConnectionsOK
    <3>3. \A h \in Hwnds : host'[h] # None =>
             host'[h].owner = g \/ (host[h] # None /\ host'[h] = host[h])
      <4> SUFFICES ASSUME NEW h \in Hwnds, host'[h] # None
                   PROVE  host'[h].owner = g \/ (host[h] # None /\ host'[h] = host[h])
        OBVIOUS
      <4>1. CASE h # m.hwnd
        BY <2>2, <4>1, AppliesCases
      <4>2. CASE h = m.hwnd /\ m.kind = "full"
        <5>1. host'[h] = [owner |-> g, bits |-> m.bits]
          BY <2>2, <4>2, AppliesCases
        <5> QED BY <5>1
      <4>3. CASE h = m.hwnd /\ m.kind = "dirty"
        <5>1. CASE Accepted(g, m)
          <6>1. host'[h] = [owner |-> g, bits |-> Merge(host[h].bits, m.bits)]
            BY <2>2, <4>3, <5>1, AppliesCases
          <6> QED BY <6>1
        <5>2. CASE ~Accepted(g, m)
          BY <2>2, <4>3, <5>2, AppliesCases
        <5> QED BY <5>1, <5>2
      <4>4. CASE h = m.hwnd /\ m.kind = "destroy"
        BY <2>2, <4>4, AppliesCases
      <4> QED BY <3>1, <4>1, <4>2, <4>3, <4>4, MessageFields
    <3>4. UNCHANGED <<generation, open, baseline, wire, conn>>
      BY <2>2 DEF HostApplies
    <3>5. \A k \in Generations : conn[k] \in {"none", "ended"} =>
             /\ hand'[k] = None
             /\ \A h \in Hwnds : host'[h] # None => host'[h].owner # k
      <4> SUFFICES ASSUME NEW k \in Generations, conn[k] \in {"none", "ended"}
                   PROVE  /\ hand'[k] = None
                          /\ \A h \in Hwnds : host'[h] # None => host'[h].owner # k
        OBVIOUS
      <4>1. k # g
        BY <3>2
      <4>2. hand'[k] = None
        BY <1>0, <3>1, <4>1 DEF ConnectionsOK
      <4>3. \A h \in Hwnds : host[h] # None => host[h].owner # k
        BY DEF ConnectionsOK
      <4> QED BY <3>3, <4>1, <4>2, <4>3
    <3> QED BY <3>4, <3>5 DEF ConnectionsOK
  <2>3. CASE HostShutsDown(g)
    <3>1. /\ conn[g] = "up" /\ conn'[g] = "shut"
          /\ \A k \in Generations : k # g => wire'[k] = wire[k] /\ conn'[k] = conn[k]
      BY <1>0, <2>3 DEF HostShutsDown
    <3> QED BY <2>3, <3>1 DEF HostShutsDown, ConnectionsOK
  <2>4. CASE HostReaderEnds(g)
    <3>1. /\ conn[g] \in {"up", "shut"} /\ conn'[g] = "ended" /\ wire[g] = <<>> /\ hand[g] = None
          /\ \A k \in Generations : k # g => conn'[k] = conn[k]
      BY <1>0, <2>4 DEF HostReaderEnds
    <3>2. \A h \in Hwnds : host'[h] # None => host[h] = host'[h] /\ host[h].owner # g
      BY <2>4 DEF HostReaderEnds
    <3> QED BY <2>4, <3>1, <3>2 DEF HostReaderEnds, ConnectionsOK
  <2> QED BY <1>2, <2>1, <2>2, <2>3, <2>4 DEF HostStep
<1>3. CASE Reconnect
  <2> DEFINE new == generation'
  <2>1. /\ ~open /\ Connect /\ UNCHANGED <<baseline, wire, hand, host>>
    BY <1>3 DEF Reconnect
  <2>2. /\ new = generation + 1 /\ new \in Generations /\ open' = TRUE
        /\ conn' = [conn EXCEPT ![new] = "up"]
    BY <2>1, ConnectType
  <2>3. /\ \A g \in Generations : g < new => conn[g] = "ended"
        /\ \A h \in Hwnds : baseline[h] < new /\ baseline[h] \in Nat
    BY <2>1, NewConnection
  <2>4. \A g \in Generations : /\ g < new => conn'[g] = "ended"
                               /\ g > new => conn'[g] = "none"
                               /\ g = new => conn'[g] = "up"
                               /\ g # new => conn'[g] = conn[g]
    BY <1>0, <2>2, <2>3 DEF ConnectionsOK
  <2>5. \A g \in Generations : conn'[g] \in {"none", "ended"} =>
           /\ wire[g] = <<>> /\ hand[g] = None
           /\ \A h \in Hwnds : host[h] # None => host[h].owner # g
    BY <2>4 DEF ConnectionsOK
  <2> HIDE DEF new
  <2> QED BY <1>0, <2>1, <2>2, <2>3, <2>4, <2>5 DEF ConnectionsOK, new
<1>4. CASE SeesHostGone
  BY <1>4, ClosedConnections DEF SeesHostGone, WriteFails
<1>5. CASE InputGivesUp
  BY <1>5, ClosedConnections DEF InputGivesUp
<1>6. CASE UNCHANGED vars
  BY <1>6, ClosedConnections DEF vars
<1> QED BY <1>1, <1>2, <1>3, <1>4, <1>5, <1>6 DEF Next

(* A step of window h leaves the other windows alone. *)
LEMMA OthersKept ==
    ASSUME TypeOK, NEW h \in Hwnds, WindowStep(h), NEW k \in Hwnds, k # h
    PROVE  /\ life'[k] = life[k] /\ current'[k] = current[k] /\ created'[k] = created[k]
           /\ baseline'[k] = baseline[k]
<1> USE DEF driver, windows, hostVars
<1>0. /\ life \in [Hwnds -> {"free", "live", "destroying", "forgetting", "releasing"}]
      /\ current \in [Hwnds -> Surface \cup {None}] /\ created \in [Hwnds -> Surface \cup {None}]
      /\ baseline \in [Hwnds -> 0..MaxGeneration]
  BY DEF TypeOK
<1>1. CASE CreateWindow(h)
  BY <1>0, <1>1 DEF CreateWindow
<1>2. CASE RegisterSurface(h)
  BY <1>0, <1>2 DEF RegisterSurface
<1>3. CASE \E G \in Geometries : CreateSurface(h, G)
  BY <1>0, <1>3 DEF CreateSurface
<1>4. CASE \E t \in Tiles : Draw(h, t)
  BY <1>0, <1>4 DEF Draw
<1>5. CASE Flush(h)
  BY <1>0, <1>5 DEF Flush, Present, WriteFails, CannotConnect
<1>6. CASE PresentNow(h)
  BY <1>0, <1>6 DEF PresentNow, Present, WriteFails, CannotConnect
<1>7. CASE DestroyWindow(h) \/ ThreadExits(h) \/ Forget(h) \/ ReleaseSurface(h)
  BY <1>0, <1>7 DEF DestroyWindow, ThreadExits, Forget, ReleaseSurface
<1>8. CASE SendDestroy(h)
  BY <1>0, <1>8 DEF SendDestroy, Send, WriteFails, CannotConnect
<1> QED BY <1>1, <1>2, <1>3, <1>4, <1>5, <1>6, <1>7, <1>8 DEF WindowStep

(* Nothing is presented but the current surface of a live window. *)
LEMMA PresentsQuietly ==
    ASSUME ~CrossThread, NEW h \in Hwnds, Flush(h) \/ PresentNow(h)
    PROVE  /\ life[h] = "live" /\ created[h] = None
           /\ UNCHANGED <<life, created, hand, host>>
BY DEF Flush, PresentNow, MayInterfere, Quiet

LEMMA SurfaceStep ==
    ASSUME ~CrossThread, TypeOK, \A k \in Hwnds : SurfaceOK(k), [Next]_vars
    PROVE  \A k \in Hwnds : SurfaceOK(k)'
<1> USE DEF driver, windows, hostVars
<1>0. /\ life \in [Hwnds -> {"free", "live", "destroying", "forgetting", "releasing"}]
      /\ current \in [Hwnds -> Surface \cup {None}] /\ created \in [Hwnds -> Surface \cup {None}]
      /\ baseline \in [Hwnds -> 0..MaxGeneration]
  BY DEF TypeOK
<1>1. ASSUME NEW h \in Hwnds, WindowStep(h) PROVE \A k \in Hwnds : SurfaceOK(k)'
  <2>1. ASSUME NEW k \in Hwnds, k # h PROVE SurfaceOK(k)'
    BY <1>1, <2>1, OthersKept DEF SurfaceOK
  <2>2. SurfaceOK(h)'
    <3>1. CASE CreateWindow(h)
      BY <1>0, <3>1 DEF CreateWindow, SurfaceOK
    <3>2. CASE RegisterSurface(h)
      BY <1>0, <3>2 DEF RegisterSurface, SurfaceOK
    <3>3. CASE \E G \in Geometries : CreateSurface(h, G)
      <4>1. PICK G \in Geometries : CreateSurface(h, G)
        BY <3>3
      <4>2. created'[h] = NewSurface(G) /\ life[h] = "live" /\ UNCHANGED <<life, current, baseline>>
        BY <1>0, <4>1 DEF CreateSurface, Quiet
      <4> QED BY <4>2, NewSurfaceType DEF SurfaceOK
    <3>4. CASE \E t \in Tiles : Draw(h, t)
      BY <1>0, <3>4 DEF Draw, SurfaceOK
    <3>5. CASE Flush(h) \/ PresentNow(h)
      BY <3>5, PresentsQuietly DEF SurfaceOK
    <3>6. CASE DestroyWindow(h) \/ ThreadExits(h)
      BY <1>0, <3>6 DEF DestroyWindow, ThreadExits, SurfaceOK, Quiet
    <3>7. CASE SendDestroy(h)
      BY <1>0, <3>7 DEF SendDestroy, SurfaceOK
    <3>8. CASE Forget(h)
      BY <1>0, <3>8 DEF Forget, SurfaceOK
    <3>9. CASE ReleaseSurface(h)
      BY <1>0, <3>9 DEF ReleaseSurface, SurfaceOK
    <3> QED BY <1>1, <3>1, <3>2, <3>3, <3>4, <3>5, <3>6, <3>7, <3>8, <3>9 DEF WindowStep
  <2> QED BY <2>1, <2>2
<1>2. CASE \/ \E g \in Generations : HostStep(g)
           \/ Reconnect \/ SeesHostGone \/ InputGivesUp \/ UNCHANGED vars
  <2>1. UNCHANGED <<life, current, created, baseline>>
    BY <1>2 DEF HostStep, HostReads, HostApplies, HostShutsDown, HostReaderEnds,
                Reconnect, SeesHostGone, WriteFails, InputGivesUp, vars
  <2> QED BY <2>1 DEF SurfaceOK
<1> QED BY <1>1, <1>2 DEF Next

-----------------------------------------------------------------------------
(* The way of a window in each step. *)

EmptyWay == [k \in 0..1 |-> None]
Before(h) == IF open THEN Way(h) ELSE EmptyWay
LastBefore == IF open THEN Last ELSE 1

LEMMA EmptyWayOK == Based(EmptyWay, 1) /\ Gone(EmptyWay, 1)
BY DEF EmptyWay, Based, Gone, IsFrame, IsKind

LEMMA WayKept ==
    ASSUME UNCHANGED <<generation, wire, hand, host>>, NEW h
    PROVE  Way(h)' = Way(h) /\ Last' = Last
BY DEF Way, Last, Shown

(* The way on a connection that has just been made. *)
LEMMA WayFresh ==
    ASSUME PromptTeardown, TypeOK, ConnectionsOK, ~open, Connect,
           UNCHANGED <<hand, host>>, NEW h \in Hwnds
    PROVE  /\ Way(h)'[0] = None /\ Way(h)'[1] = None
           /\ wire[generation'] = <<>>
<1>1. /\ wire[generation'] = <<>> /\ hand[generation'] = None
      /\ host[h] # None => host[h].owner # generation'
  BY NewConnection
<1>2. Shown(h)' = None
  BY <1>1 DEF Shown
<1>3. 0 \in 0..Len(wire'[generation']) + 1 /\ 1 \in 0..Len(wire'[generation']) + 1
  OBVIOUS
<1> QED BY <1>1, <1>2, <1>3 DEF Way, OfWindow

LEMMA WayWritten ==
    ASSUME PromptTeardown, TypeOK, ConnectionsOK, NEW m \in Message, Written(m),
           UNCHANGED <<hand, host>>, NEW h \in Hwnds
    PROVE  /\ LastBefore \in Nat /\ Last' = LastBefore + 1
           /\ \A k \in 0..LastBefore : Way(h)'[k] = Before(h)[k]
           /\ Way(h)'[LastBefore + 1] = OfWindow(h, m)
<1> DEFINE new == generation'
           s == wire[new]
<1>0. open => generation > 0
  BY DEF ConnectionsOK
<1>1. /\ new \in Generations /\ wire' = [wire EXCEPT ![new] = Append(wire[new], m)]
      /\ open => new = generation
  BY <1>0, WrittenType
<1>2. s \in Seq(Message) /\ wire'[new] = Append(s, m)
  BY <1>1 DEF TypeOK
<1>3. /\ Len(wire'[new]) = Len(s) + 1 /\ Len(s) \in Nat
      /\ \A i \in 1..Len(s) : wire'[new][i] = s[i]
      /\ wire'[new][Len(s) + 1] = m
  BY <1>2
<1>4. m # None
  BY MessageFields
<1>5. LastBefore = Len(s) + 1
  <2>1. CASE open
    BY <1>1, <2>1 DEF LastBefore, Last
  <2>2. CASE ~open
    <3>1. s = <<>>
      BY <2>2, NewConnection DEF Written
    <3> QED BY <2>2, <3>1 DEF LastBefore
  <2> QED BY <2>1, <2>2
<1>6. Last' = LastBefore + 1 /\ LastBefore \in Nat
  BY <1>3, <1>5 DEF Last
<1>7. Way(h)'[LastBefore + 1] = OfWindow(h, m)
  <2>1. /\ LastBefore + 1 \in 0..Len(wire'[new]) + 1 /\ LastBefore + 1 \notin {0, 1}
        /\ wire'[new][(LastBefore + 1) - 1] = m
    BY <1>3, <1>5
  <2> QED BY <2>1 DEF Way, OfWindow
<1>8. ASSUME NEW k \in 0..LastBefore PROVE Way(h)'[k] = Before(h)[k]
  <2>1. k \in 0..Len(wire'[new]) + 1 /\ k \in Nat /\ k <= Len(s) + 1
    BY <1>3, <1>5
  <2>2. CASE open
    <3>1. Before(h) = Way(h) /\ new = generation /\ k \in 0..Len(wire[generation]) + 1
      BY <1>1, <1>3, <2>1, <2>2 DEF Before
    <3>2. Shown(h)' = Shown(h)
      BY <3>1 DEF Shown
    <3>3. k \notin {0, 1} => wire'[new][k - 1] = wire[new][k - 1]
      BY <1>3, <2>1
    <3> QED BY <2>1, <3>1, <3>2, <3>3 DEF Way, OfWindow
  <2>3. CASE ~open
    <3>1. Way(h)'[0] = None /\ Way(h)'[1] = None
      BY <2>3, WayFresh DEF Written
    <3>2. k \in {0, 1} /\ Before(h) = EmptyWay
      BY <1>8, <2>3 DEF LastBefore, Before
    <3> QED BY <3>1, <3>2 DEF EmptyWay
  <2> QED BY <2>2, <2>3
<1> HIDE DEF new, s
<1> QED BY <1>6, <1>7, <1>8

(* What was true of the way before the message. *)
LEMMA BeforeOK ==
    ASSUME TypeOK, ConnectionsOK, Up => \A k \in Hwnds : WayOK(k), NEW h \in Hwnds,
           NEW m \in Message, Written(m)
    PROVE  /\ Based(Before(h), LastBefore)
           /\ life[h] \in {"forgetting", "releasing", "free"} => Gone(Before(h), LastBefore)
           /\ open => WayOK(h) /\ Before(h) = Way(h) /\ LastBefore = Last
<1>1. CASE ~open
  BY <1>1, EmptyWayOK DEF Before, LastBefore
<1>2. CASE open
  <2>0. open => generation > 0
    BY DEF ConnectionsOK
  <2>1. Up
    BY <1>2, <2>0, WrittenType DEF Up
  <2> QED BY <1>2, <2>1 DEF Before, LastBefore, WayOK
<1> QED BY <1>1, <1>2

(* A message passes the other windows by. *)
LEMMA OthersWay ==
    ASSUME PromptTeardown, TypeOK, ConnectionsOK, Up => \A k \in Hwnds : WayOK(k),
           NEW m \in Message, Written(m), UNCHANGED <<hand, host>>,
           NEW h \in Hwnds, h # m.hwnd,
           life'[h] = life[h], current'[h] = current[h], baseline'[h] = baseline[h]
    PROVE  WayOK(h)'
<1> DEFINE p == Before(h)
           q == Way(h)'
           last == LastBefore
<1>1. /\ last \in Nat /\ Last' = last + 1 /\ \A k \in 0..last : q[k] = p[k]
      /\ q[last + 1] = OfWindow(h, m)
  BY WayWritten
<1>2. q[last + 1] = None
  BY <1>1 DEF OfWindow
<1>3. /\ Based(p, last)
      /\ open => WayOK(h) /\ p = Way(h) /\ last = Last
      /\ life[h] \in {"forgetting", "releasing", "free"} => Gone(p, last)
  BY BeforeOK
<1> HIDE DEF p, q, last
<1>4. Based(q, last + 1)
  BY <1>1, <1>2, <1>3, AppendedBased DEF IsKind
<1>5. life[h] \in {"forgetting", "releasing", "free"} => Gone(q, last + 1)
  BY <1>1, <1>2, <1>3, AppendedGone
<1>6. ASSUME life[h] = "live", baseline[h] = generation', current[h] # None, current[h].presented
      PROVE  /\ Complete(q, last + 1, DOMAIN current[h].bits)
             /\ \A t \in DOMAIN current[h].bits \ current[h].bounds :
                   Newest(q, last + 1, t, current[h].bits[t])
  <2>0. open => generation > 0
    BY DEF ConnectionsOK
  <2>1. open
    <3> SUFFICES ASSUME ~open PROVE FALSE
      OBVIOUS
    <3>1. baseline[h] < generation' /\ baseline[h] \in Nat
      BY NewConnection DEF Written
    <3> QED BY <1>6, <3>1
  <2>2. generation' = generation /\ WayOK(h) /\ p = Way(h) /\ last = Last
    BY <1>3, <2>0, <2>1, WrittenType
  <2>3. /\ Complete(p, last, DOMAIN current[h].bits)
        /\ \A t \in DOMAIN current[h].bits \ current[h].bounds :
              Newest(p, last, t, current[h].bits[t])
    BY <1>6, <2>2 DEF WayOK
  <2>4. Complete(q, last + 1, DOMAIN current[h].bits)
    BY <1>1, <1>2, <2>3, AppendedComplete
  <2>5. ASSUME NEW t \in DOMAIN current[h].bits \ current[h].bounds
        PROVE  Newest(q, last + 1, t, current[h].bits[t])
    BY <1>1, <1>2, <2>3, AppendedNewest DEF IsFrame, IsKind
  <2> QED BY <2>4, <2>5
<1> QED BY <1>1, <1>4, <1>5, <1>6 DEF WayOK, q

(* The steps that send nothing. *)
LEMMA LocalWay ==
    ASSUME TypeOK, NEW h \in Hwnds, SurfaceOK(h), Up => \A k \in Hwnds : WayOK(k),
           \/ CreateWindow(h) \/ RegisterSurface(h)
           \/ \E G \in Geometries : CreateSurface(h, G)
           \/ \E t \in Tiles : Draw(h, t)
           \/ DestroyWindow(h) \/ ThreadExits(h) \/ Forget(h) \/ ReleaseSurface(h)
    PROVE  Up' => \A k \in Hwnds : WayOK(k)'
<1> USE DEF driver, windows, hostVars
<1>0. /\ life \in [Hwnds -> {"free", "live", "destroying", "forgetting", "releasing"}]
      /\ current \in [Hwnds -> Surface \cup {None}] /\ created \in [Hwnds -> Surface \cup {None}]
      /\ baseline \in [Hwnds -> 0..MaxGeneration]
  BY DEF TypeOK
<1>1. UNCHANGED <<generation, open, conn, wire, hand, host>>
  BY DEF CreateWindow, RegisterSurface, CreateSurface, Draw, DestroyWindow, ThreadExits,
         Forget, ReleaseSurface
<1>2. \A k \in Hwnds : Way(k)' = Way(k) /\ Last' = Last
  BY <1>1, WayKept
<1> SUFFICES ASSUME Up', NEW k \in Hwnds PROVE WayOK(k)'
  OBVIOUS
<1>3. WayOK(k)
  BY <1>1 DEF Up
<1>4. CASE k # h
  <2>1. WindowStep(h)
    BY DEF WindowStep
  <2>2. life'[k] = life[k] /\ current'[k] = current[k] /\ baseline'[k] = baseline[k]
    BY <1>4, <2>1, OthersKept
  <2> QED BY <1>1, <1>2, <1>3, <2>2 DEF WayOK
<1>5. CASE k = h
  <2>1. CASE CreateWindow(h)
    BY <1>0, <1>2, <1>3, <1>5, <2>1 DEF CreateWindow, SurfaceOK, WayOK
  <2>2. CASE RegisterSurface(h)
    <3>1. life'[h] = "live" /\ ~current'[h].presented
      BY <1>0, <2>2 DEF RegisterSurface, SurfaceOK
    <3> QED BY <1>2, <1>3, <1>5, <3>1 DEF WayOK
  <2>3. CASE \E G \in Geometries : CreateSurface(h, G)
    <3>1. UNCHANGED <<life, current, baseline>>
      BY <2>3 DEF CreateSurface
    <3> QED BY <1>1, <1>2, <1>3, <3>1 DEF WayOK
  <2>4. CASE \E t \in Tiles : Draw(h, t)
    <3>1. PICK t \in Tiles : Draw(h, t)
      BY <2>4
    <3>2. /\ current'[h] = Drawn(current[h], t) /\ current[h] \in Surface
          /\ UNCHANGED <<life, baseline>>
      BY <1>0, <3>1 DEF Draw
    <3> DEFINE s == current[h]
               r == Drawn(s, t)
    <3>3. /\ DOMAIN r.bits = DOMAIN s.bits /\ r.presented = s.presented
          /\ \A u \in DOMAIN r.bits \ r.bounds :
                u \in DOMAIN s.bits \ s.bounds /\ r.bits[u] = s.bits[u]
      BY DEF Drawn
    <3>4. s # None
      BY <3>2, SurfaceFields
    <3> HIDE DEF r
    <3> QED BY <1>1, <1>2, <1>3, <1>5, <3>2, <3>3, <3>4 DEF WayOK, r
  <2>5. CASE DestroyWindow(h) \/ ThreadExits(h)
    <3>1. life'[h] = "destroying"
      BY <1>0, <2>5 DEF DestroyWindow, ThreadExits
    <3> QED BY <1>2, <1>3, <1>5, <3>1 DEF WayOK
  <2>6. CASE Forget(h) \/ ReleaseSurface(h)
    <3>1. /\ life'[h] \in {"releasing", "free"} /\ life[h] \in {"forgetting", "releasing"}
      BY <1>0, <2>6 DEF Forget, ReleaseSurface
    <3> QED BY <1>2, <1>3, <1>5, <3>1 DEF WayOK
  <2> QED BY <2>1, <2>2, <2>3, <2>4, <2>5, <2>6
<1> QED BY <1>4, <1>5

(* A frame of the current surface s, which becomes r. *)
LEMMA FrameWay ==
    ASSUME PromptTeardown, TypeOK, ConnectionsOK, Up => \A k \in Hwnds : WayOK(k),
           NEW h \in Hwnds, life[h] = "live", life' = life,
           NEW s \in Surface, current[h] = s, NEW r, current'[h] = r, r.bits = s.bits,
           NEW dirty \in SUBSET DOMAIN s.bits,
           dirty # DOMAIN s.bits => s.presented /\ dirty = s.bounds,
           Written(Frame(h, s.bits, dirty)), UNCHANGED <<hand, host>>
    PROVE  WayOK(h)'
<1> DEFINE p == Before(h)
           q == Way(h)'
           last == LastBefore
           m == Frame(h, s.bits, dirty)
<1>0. open => generation > 0
  BY DEF ConnectionsOK
<1>1. m \in Message /\ m.hwnd = h /\ m.kind \in {"full", "dirty"} /\ m # None
  BY FrameType, SurfaceFields, MessageFields
<1>2. /\ last \in Nat /\ Last' = last + 1 /\ \A k \in 0..last : q[k] = p[k]
      /\ q[last + 1] = m
  BY <1>1, WayWritten DEF OfWindow
<1>3. /\ Based(p, last)
      /\ open => WayOK(h) /\ p = Way(h) /\ last = Last
  BY <1>1, BeforeOK
<1>4. generation' = Sending
  BY <1>0, <1>1, WrittenType
<1>5. CASE ~Partial(h, s.bits, dirty)
  <2>1. m = [kind |-> "full", hwnd |-> h, bits |-> s.bits]
    BY <1>5 DEF Frame
  <2>2. IsKind(q, last + 1, "full") /\ q[last + 1].bits = s.bits
    BY <1>1, <1>2, <2>1 DEF IsKind
  <2> HIDE DEF p, q, last, m
  <2>3. Based(q, last + 1)
    <3>1. ~IsKind(q, last + 1, "dirty")
      BY <2>2 DEF IsKind
    <3> QED BY <1>2, <1>3, <3>1, AppendedBased
  <2>4. /\ Complete(q, last + 1, DOMAIN s.bits)
        /\ \A t \in DOMAIN s.bits : Newest(q, last + 1, t, s.bits[t])
    BY <1>2, <2>2, AppendedFull
  <2> QED BY <1>2, <2>3, <2>4 DEF WayOK, q
<1>6. CASE Partial(h, s.bits, dirty)
  <2>1. m = [kind |-> "dirty", hwnd |-> h, bits |-> [t \in dirty |-> s.bits[t]]]
    BY <1>6 DEF Frame
  <2>2. /\ IsKind(q, last + 1, "dirty") /\ DOMAIN q[last + 1].bits = dirty
        /\ \A t \in dirty : q[last + 1].bits[t] = s.bits[t]
    BY <1>1, <1>2, <2>1 DEF IsKind
  <2>3. baseline[h] = generation' /\ s.presented /\ dirty = s.bounds
    BY <1>4, <1>6 DEF Partial
  <2>4. open
    <3> SUFFICES ASSUME ~open PROVE FALSE
      OBVIOUS
    <3>1. baseline[h] < generation' /\ baseline[h] \in Nat
      BY NewConnection DEF Written
    <3> QED BY <2>3, <3>1
  <2>5. generation' = generation /\ s # None
    BY <1>4, <2>4, SurfaceFields DEF Sending
  <2>6. /\ Complete(p, last, DOMAIN s.bits)
        /\ \A t \in DOMAIN s.bits \ s.bounds : Newest(p, last, t, s.bits[t])
    BY <1>3, <2>3, <2>4, <2>5 DEF WayOK
  <2> HIDE DEF p, q, last, m
  <2>7. Based(q, last + 1)
    BY <1>2, <1>3, <2>2, <2>6, AppendedBased
  <2>8. Complete(q, last + 1, DOMAIN s.bits)
    BY <1>2, <2>2, <2>6, AppendedComplete DEF IsKind
  <2>9. \A t \in DOMAIN s.bits : Newest(q, last + 1, t, s.bits[t])
    <3> SUFFICES ASSUME NEW t \in DOMAIN s.bits PROVE Newest(q, last + 1, t, s.bits[t])
      OBVIOUS
    <3>1. CASE t \in dirty
      BY <1>2, <2>2, <3>1, AppendedDirty
    <3>2. CASE t \notin dirty
      <4>1. Newest(p, last, t, s.bits[t])
        BY <2>3, <2>6, <3>2
      <4> QED BY <1>2, <2>2, <3>2, <4>1, AppendedNewest
    <3> QED BY <3>1, <3>2
  <2> QED BY <1>2, <2>7, <2>8, <2>9 DEF WayOK, q
<1> QED BY <1>5, <1>6

LEMMA PresentWay ==
    ASSUME ~CrossThread, PromptTeardown, TypeOK, ConnectionsOK,
           Up => \A k \in Hwnds : WayOK(k), NEW h \in Hwnds, Flush(h) \/ PresentNow(h)
    PROVE  Up' => \A k \in Hwnds : WayOK(k)'
<1> DEFINE s == current[h]
           dirty == IF Flush(h) /\ s.presented THEN s.bounds ELSE DOMAIN s.bits
<1>1. life[h] = "live" /\ created[h] = None /\ UNCHANGED <<life, created, hand, host>>
  BY PresentsQuietly
<1>2. s \in Surface /\ current \in [Hwnds -> Surface \cup {None}]
  BY <1>1 DEF TypeOK, Flush, PresentNow
<1>3. s.bits \in Picture /\ s.bounds \subseteq DOMAIN s.bits
  BY <1>2, SurfaceFields
<1>4. current'[h].bits = s.bits
  BY <1>1, <1>2 DEF Flush, PresentNow, Surface
<1>5. \E d \in SUBSET DOMAIN s.bits :
         /\ d # DOMAIN s.bits => s.presented /\ d = s.bounds
         /\ Present(h, s.bits, d)
  <2>1. CASE Flush(h)
    BY <1>3, <2>1 DEF Flush
  <2>2. CASE PresentNow(h)
    BY <1>1, <1>3, <2>2 DEF PresentNow
  <2> QED BY <2>1, <2>2
<1>6. PICK d \in SUBSET DOMAIN s.bits :
         /\ d # DOMAIN s.bits => s.presented /\ d = s.bounds
         /\ Present(h, s.bits, d)
  BY <1>5
<1>7. CASE WriteFails \/ CannotConnect
  BY <1>7 DEF WriteFails, CannotConnect, Up, driver
<1>8. CASE Written(Frame(h, s.bits, d))
  <2>1. WayOK(h)'
    BY <1>1, <1>2, <1>4, <1>6, <1>8, FrameWay
  <2>2. Frame(h, s.bits, d) \in Message /\ Frame(h, s.bits, d).hwnd = h
    BY <1>3, FrameType
  <2>3. ASSUME NEW k \in Hwnds, k # h PROVE WayOK(k)'
    <3>1. WindowStep(h)
      BY DEF WindowStep
    <3>2. current'[k] = current[k] /\ baseline'[k] = baseline[k] /\ life'[k] = life[k]
      BY <2>3, <3>1, OthersKept
    <3> QED BY <1>1, <1>8, <2>2, <2>3, <3>2, OthersWay
  <2> QED BY <2>1, <2>3
<1> QED BY <1>6, <1>7, <1>8 DEF Present

LEMMA DestroyWay ==
    ASSUME PromptTeardown, TypeOK, ConnectionsOK, Up => \A k \in Hwnds : WayOK(k),
           NEW h \in Hwnds, SendDestroy(h)
    PROVE  Up' => \A k \in Hwnds : WayOK(k)'
<1> DEFINE m == [kind |-> "destroy", hwnd |-> h]
           p == Before(h)
           q == Way(h)'
           last == LastBefore
<1>0. UNCHANGED <<hand, host>> /\ life'[h] = "forgetting"
  BY DEF SendDestroy, TypeOK
<1>1. m \in Message /\ m.hwnd = h /\ m.kind = "destroy"
  BY DEF Message
<1>2. CASE WriteFails \/ CannotConnect
  BY <1>2 DEF WriteFails, CannotConnect, Up, driver
<1>3. CASE Written(m)
  <2>1. m # None
    BY <1>1, MessageFields
  <2>2. /\ last \in Nat /\ Last' = last + 1 /\ \A k \in 0..last : q[k] = p[k]
        /\ q[last + 1] = m
    BY <1>0, <1>1, <1>3, <2>1, WayWritten DEF OfWindow
  <2>3. Based(p, last)
    BY <1>1, <1>3, BeforeOK
  <2>4. IsKind(q, last + 1, "destroy") /\ ~IsKind(q, last + 1, "dirty")
    BY <1>1, <2>1, <2>2 DEF IsKind
  <2>5. ASSUME NEW k \in Hwnds, k # h PROVE WayOK(k)'
    <3>1. WindowStep(h)
      BY DEF WindowStep
    <3>2. current'[k] = current[k] /\ baseline'[k] = baseline[k] /\ life'[k] = life[k]
      BY <2>5, <3>1, OthersKept
    <3>3. m.hwnd # k
      BY <1>1, <2>5
    <3> HIDE DEF m
    <3> QED BY <1>0, <1>1, <1>3, <2>5, <3>2, <3>3, OthersWay
  <2> HIDE DEF p, q, last, m
  <2>6. Based(q, last + 1) /\ Gone(q, last + 1)
    BY <2>2, <2>3, <2>4, AppendedBased, AppendedDestroy
  <2>7. WayOK(h)'
    BY <1>0, <2>2, <2>6 DEF WayOK, q
  <2> QED BY <2>5, <2>7
<1> QED BY <1>2, <1>3 DEF SendDestroy, Send

LEMMA ReconnectWay ==
    ASSUME PromptTeardown, TypeOK, ConnectionsOK, Reconnect
    PROVE  \A h \in Hwnds : WayOK(h)'
<1> SUFFICES ASSUME NEW h \in Hwnds PROVE WayOK(h)'
  OBVIOUS
<1>1. ~open /\ Connect /\ UNCHANGED <<hand, host, wire, baseline>>
  BY DEF Reconnect
<1>2. Way(h)'[0] = None /\ Way(h)'[1] = None /\ wire[generation'] = <<>>
  BY <1>1, WayFresh
<1>3. Last' = 1
  BY <1>1, <1>2 DEF Last
<1>4. \A k \in 0..1 : Way(h)'[k] = None
  BY <1>2
<1>5. Based(Way(h)', 1) /\ Gone(Way(h)', 1)
  BY <1>4 DEF Based, Gone, IsFrame, IsKind
<1>6. baseline[h] < generation' /\ baseline[h] \in Nat
  BY <1>1, NewConnection
<1>7. baseline'[h] # generation'
  BY <1>1, <1>6
<1> QED BY <1>3, <1>5, <1>7 DEF WayOK

(* The host is only ever busy with the connection in use. *)
LEMMA ServedConnection ==
    ASSUME TypeOK, ConnectionsOK, NEW g \in Generations, HostStep(g)
    PROVE  g = generation /\ generation' = generation
<1>1. g \in Nat /\ generation \in Nat
  BY BoundsAssumption DEF Generations, TypeOK
<1>2. conn[g] \notin {"none", "ended"}
  BY DEF HostStep, HostReads, HostApplies, HostShutsDown, HostReaderEnds, ConnectionsOK
<1> QED BY <1>1, <1>2 DEF ConnectionsOK, HostStep, HostReads, HostApplies, HostShutsDown,
                          HostReaderEnds, driver

LEMMA ReadWay ==
    ASSUME TypeOK, ConnectionsOK, generation \in Generations, HostReads(generation),
           NEW h \in Hwnds
    PROVE  Last = Last' + 1 /\ Last' \in Nat \ {0} /\ Moved(Way(h), Way(h)', Last')
<1> DEFINE s == wire[generation]
<1>1. /\ generation' = generation /\ host' = host /\ hand[generation] = None
      /\ wire'[generation] = Tail(s) /\ hand'[generation] = Head(s)
      /\ s \in Seq(Message) /\ s # <<>>
  BY DEF HostReads, TypeOK, driver
<1> HIDE DEF s
<1>2. /\ Len(s) \in Nat \ {0} /\ Len(Tail(s)) = Len(s) - 1 /\ Head(s) = s[1]
      /\ \A k \in 1..Len(s) - 1 : Tail(s)[k] = s[k + 1]
  BY <1>1
<1>3. Last = Len(s) + 1 /\ Last' = Len(s)
  BY <1>1, <1>2 DEF Last, s
<1>4. Shown(h)' = Shown(h)
  BY <1>1 DEF Shown
<1>5. Way(h)[1] = None /\ Way(h)[0] = Shown(h) /\ Way(h)'[0] = Shown(h)
  BY <1>1, <1>2, <1>3, <1>4 DEF Way, OfWindow, s
<1>6. ASSUME NEW k \in 1..Last' PROVE Way(h)'[k] = Way(h)[k + 1]
  <2>1. /\ k + 1 \in 0..Len(s) + 1 /\ k + 1 \notin {0, 1} /\ (k + 1) - 1 = k
        /\ k \in 0..Len(Tail(s)) + 1 /\ k # 0 /\ k \in 1..Len(s)
    BY <1>2, <1>3
  <2>2. Way(h)[k + 1] = OfWindow(h, s[k])
    BY <2>1 DEF Way, s
  <2>3. Way(h)'[k] = OfWindow(h, s[k])
    <3>1. CASE k = 1
      BY <1>1, <1>2, <2>1, <3>1 DEF Way, OfWindow
    <3>2. CASE k # 1
      <4>1. Tail(s)[k - 1] = s[(k - 1) + 1] /\ (k - 1) + 1 = k
        BY <1>2, <2>1, <3>2
      <4> QED BY <1>1, <2>1, <3>2, <4>1 DEF Way, OfWindow
    <3> QED BY <3>1, <3>2
  <2> QED BY <2>2, <2>3
<1> QED BY <1>2, <1>3, <1>5, <1>6 DEF Moved

LEMMA AppliedWay ==
    ASSUME TypeOK, ConnectionsOK, generation \in Generations, HostApplies(generation),
           NEW h \in Hwnds, Based(Way(h), Last)
    PROVE  Last' = Last /\ Last \in Nat \ {0} /\ Applied(Way(h), Way(h)', Last)
<1> DEFINE m == hand[generation]
           p == Way(h)
           q == Way(h)'
<1>1. /\ UNCHANGED <<generation, wire>> /\ m # None
      /\ hand'[generation] = None
  BY DEF HostApplies, TypeOK, driver
<1>2. Last' = Last /\ Last \in Nat \ {0} /\ Last = Len(wire[generation]) + 1
  <2>1. wire[generation] \in Seq(Message)
    BY DEF TypeOK
  <2>2. Len(wire[generation]) \in Nat
    BY <2>1
  <2> QED BY <1>1, <2>2 DEF Last
<1>3. p[0] = Shown(h) /\ p[1] = OfWindow(h, m) /\ q[0] = Shown(h)' /\ q[1] = None
  BY <1>1, <1>2 DEF Way, OfWindow
<1>4. \A k \in 2..Last : q[k] = p[k]
  BY <1>1, <1>2 DEF Way, OfWindow
<1>5. /\ m \in Message
      /\ h # m.hwnd => host'[h] = host[h]
      /\ m.hwnd = h /\ m.kind = "full" => host'[h] = [owner |-> generation, bits |-> m.bits]
      /\ m.hwnd = h /\ m.kind = "dirty" /\ Accepted(generation, m) =>
            host'[h] = [owner |-> generation, bits |-> Merge(host[h].bits, m.bits)]
      /\ m.hwnd = h /\ m.kind = "destroy" =>
            host'[h] = IF host[h] # None /\ host[h].owner = generation THEN None ELSE host[h]
  <2>1. /\ m \in Message
        /\ \A k \in Hwnds : k # m.hwnd => host'[k] = host[k]
        /\ m.kind = "full" => host'[m.hwnd] = [owner |-> generation, bits |-> m.bits]
        /\ m.kind = "dirty" /\ Accepted(generation, m) =>
              host'[m.hwnd] = [owner |-> generation, bits |-> Merge(host[m.hwnd].bits, m.bits)]
        /\ m.kind = "destroy" =>
              host'[m.hwnd] = IF host[m.hwnd] # None /\ host[m.hwnd].owner = generation
                              THEN None ELSE host[m.hwnd]
    BY AppliesCases
  <2> QED BY <2>1
<1>6. m.kind \in {"full", "dirty", "destroy"} /\ m.hwnd \in Hwnds
  BY <1>5, MessageFields
<1>7. /\ host \in [Hwnds -> Framebuffer \cup {None}] /\ host' \in [Hwnds -> Framebuffer \cup {None}]
  BY AppliesCases DEF TypeOK
<1>8. \A b, c : [owner |-> b, bits |-> c] \in Framebuffer => [owner |-> b, bits |-> c] # None
  BY NoneAssumption
<1>9. \A c : c \in Picture => [kind |-> "full", hwnd |-> h, bits |-> c] \in Message
  BY DEF Message
<1>10. /\ Shown(h) # None <=> host[h] # None /\ host[h].owner = generation
       /\ Shown(h) # None => Shown(h).kind = "full" /\ Shown(h).bits = host[h].bits
  <2>1. host[h] # None => host[h].bits \in Picture
    BY <1>7, FramebufferFields
  <2> QED BY <1>9, <2>1, NoneAssumption DEF Shown
<1>11. /\ Shown(h)' # None <=> host'[h] # None /\ host'[h].owner = generation
       /\ Shown(h)' # None => Shown(h)'.kind = "full" /\ Shown(h)'.bits = host'[h].bits
  <2>1. host'[h] # None => host'[h].bits \in Picture
    BY <1>7, FramebufferFields
  <2> QED BY <1>1, <1>9, <2>1, NoneAssumption DEF Shown
<1>12. p[1] = None => q[0] = p[0]
  <2> SUFFICES ASSUME p[1] = None PROVE Shown(h)' = Shown(h)
    BY <1>3
  <2> h # m.hwnd
    BY <1>1, <1>3 DEF OfWindow
  <2> QED BY <1>1, <1>5 DEF Shown
<1>13. ASSUME IsKind(p, 1, "full") PROVE IsKind(q, 0, "full") /\ q[0].bits = p[1].bits
  <2>1. p[1] = m /\ m.hwnd = h /\ m.kind = "full"
    BY <1>3, <1>13 DEF IsKind, OfWindow
  <2>2. host'[h] = [owner |-> generation, bits |-> m.bits]
    BY <1>5, <2>1
  <2>3. m.bits \in Picture
    BY <1>5, <2>1, MessageFields
  <2>4. host'[h] # None
    BY <1>8, <2>2, <2>3 DEF Framebuffer
  <2> QED BY <1>3, <1>11, <2>1, <2>2, <2>4 DEF IsKind
<1>14. ASSUME IsKind(p, 1, "destroy") PROVE q[0] = None
  <2>1. p[1] = m /\ m.hwnd = h /\ m.kind = "destroy"
    BY <1>3, <1>14 DEF IsKind, OfWindow
  <2> QED BY <1>3, <1>5, <1>11, <2>1
<1>15. ASSUME IsKind(p, 1, "dirty")
       PROVE  /\ IsKind(p, 0, "full") /\ IsKind(q, 0, "full")
              /\ q[0].bits = Merge(p[0].bits, p[1].bits)
  <2>1. p[1] = m /\ m.hwnd = h /\ m.kind = "dirty"
    BY <1>3, <1>15 DEF IsKind, OfWindow
  <2>2. IsKind(p, 0, "full") /\ DOMAIN p[1].bits \subseteq DOMAIN p[0].bits
    BY <1>2, <1>15 DEF Based
  <2>3. Accepted(generation, m) /\ p[0].bits = host[h].bits
    BY <1>3, <1>10, <2>1, <2>2 DEF Accepted, IsKind
  <2>4. host'[h] = [owner |-> generation, bits |-> Merge(host[h].bits, m.bits)]
    BY <1>5, <2>1, <2>3
  <2>5. host'[h] # None
    <3>1. host[h] \in Framebuffer
      BY <1>7, <2>1, <2>3 DEF Accepted
    <3>2. Merge(host[h].bits, m.bits) \in Picture
      BY <1>5, <2>1, <3>1, MergeType, MessageFields, FramebufferFields
    <3> QED BY <1>8, <2>4, <3>2 DEF Framebuffer
  <2> QED BY <1>3, <1>11, <2>1, <2>2, <2>3, <2>4, <2>5 DEF IsKind
<1>16. /\ q[0] # None => q[0].kind = "full"
       /\ p[1] # None => p[1].kind \in {"full", "dirty", "destroy"}
  BY <1>3, <1>6, <1>11 DEF OfWindow
<1> HIDE DEF p, q
<1>17. Applied(p, q, Last)
  BY <1>3, <1>4, <1>12, <1>13, <1>14, <1>15, <1>16 DEF Applied
<1> QED BY <1>2, <1>17 DEF p, q

LEMMA HostWay ==
    ASSUME TypeOK, ConnectionsOK, Up => \A k \in Hwnds : WayOK(k),
           NEW g \in Generations, HostStep(g)
    PROVE  Up' => \A k \in Hwnds : WayOK(k)'
<1> USE DEF driver, windows, hostVars
<1>1. g = generation /\ generation' = generation
  BY ServedConnection
<1>2. CASE HostShutsDown(g) \/ HostReaderEnds(g)
  <2>1. conn'[generation'] # "up"
    BY <1>1, <1>2 DEF HostShutsDown, HostReaderEnds, TypeOK
  <2> QED BY <2>1 DEF Up
<1>3. CASE HostReads(g) \/ HostApplies(g)
  <2>1. UNCHANGED <<generation, open, conn, life, current, baseline>>
    BY <1>3 DEF HostReads, HostApplies
  <2> SUFFICES ASSUME Up', NEW h \in Hwnds PROVE WayOK(h)'
    OBVIOUS
  <2>2. WayOK(h)
    BY <2>1 DEF Up
  <2> DEFINE p == Way(h)
             q == Way(h)'
             last == Last'
             s == current[h]
  <2>3. CASE HostReads(g)
    <3>1. Last = last + 1 /\ last \in Nat \ {0} /\ Moved(p, q, last)
      BY <1>1, <2>3, ReadWay
    <3>2. /\ Based(p, last + 1)
          /\ life[h] \in {"forgetting", "releasing", "free"} => Gone(p, last + 1)
          /\ /\ life[h] = "live" /\ baseline[h] = generation /\ s # None /\ s.presented
             => /\ Complete(p, last + 1, DOMAIN s.bits)
                /\ \A t \in DOMAIN s.bits \ s.bounds : Newest(p, last + 1, t, s.bits[t])
      BY <2>2, <3>1 DEF WayOK
    <3> HIDE DEF p, q, last
    <3>3. /\ Based(q, last)
          /\ life[h] \in {"forgetting", "releasing", "free"} => Gone(q, last)
      BY <3>1, <3>2, MovedBased, MovedGone
    <3>4. ASSUME life[h] = "live" /\ baseline[h] = generation /\ s # None /\ s.presented
          PROVE  /\ Complete(q, last, DOMAIN s.bits)
                 /\ \A t \in DOMAIN s.bits \ s.bounds : Newest(q, last, t, s.bits[t])
      BY <3>1, <3>2, <3>4, MovedComplete, MovedNewest
    <3> QED BY <2>1, <3>3, <3>4 DEF WayOK, q, last
  <2>4. CASE HostApplies(g)
    <3>1. last = Last /\ last \in Nat \ {0} /\ Applied(p, q, last)
      BY <1>1, <2>2, <2>4, AppliedWay DEF WayOK
    <3>2. /\ Based(p, last)
          /\ life[h] \in {"forgetting", "releasing", "free"} => Gone(p, last)
          /\ /\ life[h] = "live" /\ baseline[h] = generation /\ s # None /\ s.presented
             => /\ Complete(p, last, DOMAIN s.bits)
                /\ \A t \in DOMAIN s.bits \ s.bounds : Newest(p, last, t, s.bits[t])
      BY <2>2, <3>1 DEF WayOK
    <3> HIDE DEF p, q, last
    <3>3. /\ Based(q, last)
          /\ life[h] \in {"forgetting", "releasing", "free"} => Gone(q, last)
      BY <3>1, <3>2, AppliedBased, AppliedGone
    <3>4. ASSUME life[h] = "live" /\ baseline[h] = generation /\ s # None /\ s.presented
          PROVE  /\ Complete(q, last, DOMAIN s.bits)
                 /\ \A t \in DOMAIN s.bits \ s.bounds : Newest(q, last, t, s.bits[t])
      <4>1. Complete(p, last, DOMAIN s.bits)
        BY <3>2, <3>4
      <4>2. ASSUME NEW t \in DOMAIN s.bits \ s.bounds PROVE Newest(q, last, t, s.bits[t])
        <5>1. Newest(p, last, t, s.bits[t])
          BY <3>2, <3>4
        <5> QED BY <3>1, <4>1, <5>1, AppliedNewest
      <4> QED BY <3>1, <4>1, <4>2, AppliedComplete
    <3> QED BY <2>1, <3>3, <3>4 DEF WayOK, q, last
  <2> QED BY <1>3, <2>3, <2>4
<1> QED BY <1>2, <1>3 DEF HostStep

LEMMA WayStep ==
    ASSUME ~CrossThread, PromptTeardown, DisplayOK, [Next]_vars
    PROVE  Up' => \A k \in Hwnds : WayOK(k)'
<1>0. /\ TypeOK /\ ConnectionsOK /\ \A h \in Hwnds : SurfaceOK(h)
      /\ Up => \A k \in Hwnds : WayOK(k)
  BY DEF DisplayOK
<1>1. ASSUME NEW h \in Hwnds, WindowStep(h) PROVE Up' => \A k \in Hwnds : WayOK(k)'
  <2>1. CASE Flush(h) \/ PresentNow(h)
    BY <1>0, <2>1, PresentWay
  <2>2. CASE SendDestroy(h)
    BY <1>0, <2>2, DestroyWay
  <2>3. CASE \/ CreateWindow(h) \/ RegisterSurface(h)
             \/ \E G \in Geometries : CreateSurface(h, G)
             \/ \E t \in Tiles : Draw(h, t)
             \/ DestroyWindow(h) \/ ThreadExits(h) \/ Forget(h) \/ ReleaseSurface(h)
    BY <1>0, <2>3, LocalWay
  <2> QED BY <1>1, <2>1, <2>2, <2>3 DEF WindowStep
<1>2. CASE \E g \in Generations : HostStep(g)
  BY <1>0, <1>2, HostWay
<1>3. CASE Reconnect
  BY <1>0, <1>3, ReconnectWay
<1>4. CASE SeesHostGone \/ InputGivesUp
  BY <1>4 DEF SeesHostGone, WriteFails, InputGivesUp, Up
<1>5. CASE UNCHANGED vars
  <2>1. UNCHANGED <<generation, open, conn, wire, hand, host, life, current, baseline>>
    BY <1>5 DEF vars, driver, windows, hostVars
  <2>2. \A k \in Hwnds : Way(k)' = Way(k) /\ Last' = Last
    BY <2>1, WayKept
  <2> QED BY <1>0, <2>1, <2>2 DEF Up, WayOK
<1> QED BY <1>1, <1>2, <1>3, <1>4, <1>5 DEF Next

-----------------------------------------------------------------------------
(* The theorems. *)

(* The types, the connections, the surfaces and the messages on their way stay as
   DisplayOK says, when no other thread flushes a window (iosdrv.c surface_flush and
   iosdrv_present_now run in the thread that owns it) and a reader of the host has ended
   (JuiceInvalidateClient) before the next connection is served. *)
THEOREM DisplayInvariant ==
    ASSUME ~CrossThread, PromptTeardown PROVE Spec => []DisplayOK
<1>1. Init => DisplayOK
  <2> SUFFICES ASSUME Init PROVE DisplayOK
    OBVIOUS
  <2>1. TypeOK
    BY TypeInit
  <2>2. ConnectionsOK
    BY BoundsAssumption DEF Init, ConnectionsOK, Generations
  <2>3. ASSUME NEW h \in Hwnds PROVE SurfaceOK(h)
    <3>1. created[h] = None /\ current[h] = None /\ baseline[h] = 0
      BY DEF Init
    <3> QED BY <3>1 DEF SurfaceOK
  <2>4. ~Up
    BY DEF Init, Up
  <2> QED BY <2>1, <2>2, <2>3, <2>4 DEF DisplayOK
<1>2. DisplayOK /\ [Next]_vars => DisplayOK'
  <2> SUFFICES ASSUME DisplayOK, [Next]_vars PROVE DisplayOK'
    OBVIOUS
  <2>1. TypeOK /\ ConnectionsOK /\ \A h \in Hwnds : SurfaceOK(h)
    BY DEF DisplayOK
  <2>2. open => generation > 0
    BY <2>1 DEF ConnectionsOK
  <2>3. TypeOK' /\ ConnectionsOK'
    BY <2>1, <2>2, TypeStep, ConnectionsStep
  <2>4. \A k \in Hwnds : SurfaceOK(k)'
    BY <2>1, SurfaceStep
  <2>5. Up' => \A k \in Hwnds : WayOK(k)'
    BY WayStep
  <2> QED BY <2>3, <2>4, <2>5 DEF DisplayOK
<1> QED BY <1>1, <1>2, PTL DEF Spec

(* The way of a window once everything is applied: the framebuffer and nothing else. *)
LEMMA DrainedWay ==
    ASSUME TypeOK, Drained, NEW h \in Hwnds
    PROVE  /\ Last = 1 /\ Way(h)[0] = Shown(h) /\ Way(h)[1] = None
           /\ Shown(h) # None <=> host[h] # None /\ host[h].owner = generation
           /\ Shown(h) # None => Shown(h).kind = "full" /\ Shown(h).bits = host[h].bits
<1>1. wire[generation] = <<>> /\ hand[generation] = None
  BY DEF Drained
<1>2. Len(wire[generation]) = 0
  BY <1>1
<1>3. Last = 1 /\ Way(h)[0] = Shown(h) /\ Way(h)[1] = None
  BY <1>1, <1>2 DEF Last, Way, OfWindow
<1>4. host[h] # None => host[h].bits \in Picture
  BY FramebufferFields DEF TypeOK
<1>5. \A c : c \in Picture => [kind |-> "full", hwnd |-> h, bits |-> c] # None
  BY NoneAssumption DEF Message
<1> QED BY <1>3, <1>4, <1>5 DEF Shown

(* Once the host has applied what was sent, its framebuffer of a window has the
   geometry of the surface and its contents outside the bounds still to be flushed,
   and none is left of a destroyed window (ipc.c 452-516, JuiceApplyDirty). *)
THEOREM PictureIsTheSurfaceAlways ==
    ASSUME ~CrossThread, PromptTeardown PROVE Spec => []PictureIsTheSurface
<1>1. DisplayOK => PictureIsTheSurface
  <2> SUFFICES ASSUME DisplayOK, Drained, NEW h \in Hwnds,
                      host[h] # None, host[h].owner = generation
               PROVE  /\ life[h] # "free"
                      /\ Seeded(h) =>
                           /\ DOMAIN host[h].bits = DOMAIN current[h].bits
                           /\ \A t \in DOMAIN host[h].bits \ current[h].bounds :
                                 host[h].bits[t] = current[h].bits[t]
    BY DEF PictureIsTheSurface
  <2>1. WayOK(h) /\ TypeOK
    BY DEF DisplayOK, Up, Drained
  <2> DEFINE p == Way(h)
  <2>2. /\ Last = 1 /\ p[1] = None /\ p[0] # None
        /\ p[0].kind = "full" /\ p[0].bits = host[h].bits
    BY <2>1, DrainedWay
  <2>3. life[h] # "free"
    <3>1. life[h] = "free" => Gone(p, 1)
      BY <2>1, <2>2 DEF WayOK
    <3>2. IsFrame(p, 0) /\ \A i \in 1..1 : ~IsKind(p, i, "destroy")
      BY <2>2 DEF IsFrame, IsKind
    <3> HIDE DEF p
    <3> QED BY <3>1, <3>2 DEF Gone
  <2>4. ASSUME Seeded(h)
        PROVE  /\ DOMAIN host[h].bits = DOMAIN current[h].bits
               /\ \A t \in DOMAIN host[h].bits \ current[h].bounds :
                     host[h].bits[t] = current[h].bits[t]
    <3>1. /\ Complete(p, 1, DOMAIN current[h].bits)
          /\ \A t \in DOMAIN current[h].bits \ current[h].bounds :
                Newest(p, 1, t, current[h].bits[t])
      BY <2>1, <2>2, <2>4 DEF WayOK, Seeded, Quiet
    <3> HIDE DEF p
    <3>2. DOMAIN host[h].bits = DOMAIN current[h].bits
      BY <2>2, <3>1 DEF Complete, IsKind
    <3>3. ASSUME NEW t \in DOMAIN host[h].bits \ current[h].bounds
          PROVE  host[h].bits[t] = current[h].bits[t]
      <4>1. Newest(p, 1, t, current[h].bits[t])
        BY <3>1, <3>2
      <4> QED BY <2>2, <4>1 DEF Newest, IsFrame, IsKind
    <3> QED BY <3>2, <3>3
  <2> QED BY <2>3, <2>4
<1> QED BY <1>1, DisplayInvariant, PTL

(* What the driver's table says of the connection in use is true of the host, and a
   rectangle that arrives on it finds the framebuffer it belongs to (iosdrv.c:145,
   app/JuiceReconnectGrace.m:8-9). *)
THEOREM BaselineIsSharedAlways ==
    ASSUME ~CrossThread, PromptTeardown PROVE Spec => []BaselineIsShared
<1>1. DisplayOK => BaselineIsShared
  <2> SUFFICES ASSUME DisplayOK PROVE BaselineIsShared
    OBVIOUS
  <2>0. TypeOK /\ ConnectionsOK /\ (Up => \A h \in Hwnds : WayOK(h))
    BY DEF DisplayOK
  <2>1. ASSUME Drained, NEW h \in Hwnds, Seeded(h)
        PROVE  host[h] # None /\ host[h].owner = generation
    <3>1. WayOK(h)
      BY <2>0, <2>1 DEF Up, Drained
    <3> DEFINE p == Way(h)
    <3>2. Last = 1 /\ p[1] = None /\ p[0] = Shown(h)
      BY <2>0, <2>1, DrainedWay
    <3>3. Complete(p, 1, DOMAIN current[h].bits)
      BY <2>1, <3>1, <3>2 DEF WayOK, Seeded, Quiet
    <3> HIDE DEF p
    <3>4. Shown(h) # None
      BY <3>2, <3>3 DEF Complete, IsKind
    <3> QED BY <2>0, <2>1, <3>4, DrainedWay
  <2> DEFINE m == hand[generation]
  <2>2. ASSUME open, conn[generation] = "up", m # None, m.kind = "dirty"
        PROVE  Accepted(generation, m)
    <3>1. generation \in Generations
      BY <2>0, <2>2 DEF ConnectionsOK, TypeOK, Generations
    <3>2. m \in Message /\ m.hwnd \in Hwnds
      BY <2>0, <2>2, <3>1, MessageFields DEF TypeOK
    <3> DEFINE h == m.hwnd
               p == Way(h)
    <3>3. Based(p, Last) /\ wire[generation] \in Seq(Message)
      BY <2>0, <2>2, <3>1, <3>2 DEF Up, WayOK, TypeOK
    <3>4. Last \in Nat \ {0} /\ p[0] = Shown(h) /\ p[1] = m
      <4>1. Len(wire[generation]) \in Nat
        BY <3>3
      <4> QED BY <2>2, <4>1 DEF Last, Way, OfWindow
    <3>5. IsKind(p, 0, "full") /\ DOMAIN m.bits \subseteq DOMAIN p[0].bits
      <4> HIDE DEF p, m
      <4>1. IsKind(p, 1, "dirty")
        BY <2>2, <3>4 DEF IsKind
      <4> QED BY <3>3, <3>4, <4>1 DEF Based
    <3>6. Shown(h) # None
      BY <3>4, <3>5 DEF IsKind
    <3> QED BY <3>4, <3>5, <3>6 DEF Shown, Accepted
  <2> QED BY <2>1, <2>2 DEF BaselineIsShared
<1> QED BY <1>1, DisplayInvariant, PTL
=============================================================================
