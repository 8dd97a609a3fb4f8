---------------------------- MODULE RoomProofs ----------------------------
(***************************************************************************)
(* The room's video.  First TilesLegal for the compositor alone, for every *)
(* canvas and every set of tracks; then the room that drives it: NoGhosts, *)
(* and that the room never uses the compositor but as Compositor allows.   *)
(***************************************************************************)
EXTENDS Room, FiniteSetTheorems, TLAPS

-----------------------------------------------------------------------------
(* The grid *)

LEMMA ColsType ==
    ASSUME NEW n \in Nat \ {0}
    PROVE  Cols(n) \in 1..n
<1> DEFINE S == {k \in 0..(n - 1) : k * k < n}
<1>1. /\ IsFiniteSet(0..(n - 1))
      /\ Cardinality(0..(n - 1)) = n
  BY FS_Interval
<1>2. S \subseteq 0..(n - 1)
  OBVIOUS
<1>3. IsFiniteSet(S) /\ Cardinality(S) <= n
  BY <1>1, <1>2, FS_Subset
<1>4. 0 \in S
  OBVIOUS
<1>5. Cardinality(S) \in Nat /\ Cardinality(S) # 0
  BY <1>3, <1>4, FS_CardinalityType, FS_EmptySet
<1> QED
  BY <1>3, <1>5 DEF Cols

\* Multiplying by a tile's size keeps rows, and columns, apart.
LEMMA Apart ==
    ASSUME NEW a \in Nat, NEW b \in Nat, NEW s \in Nat, a < b
    PROVE  a * s + s <= b * s
<1>1. PICK d \in Nat : b = a + 1 + d
  <2> WITNESS b - a - 1 \in Nat
  <2> QED OBVIOUS
<1>2. b * s = a * s + s + d * s
  BY <1>1
<1>3. d * s \in Nat
  OBVIOUS
<1>4. a * s \in Nat
  OBVIOUS
<1> QED
  BY <1>2, <1>3, <1>4

LEMMA Quotient ==
    ASSUME NEW a \in Nat, NEW c \in Nat \ {0}
    PROVE  /\ a \div c \in Nat
           /\ a % c \in 0..(c - 1)
           /\ a = c * (a \div c) + (a % c)
  OBVIOUS

\* c tiles of the size that layoutGrid computes fit into the canvas.
LEMMA Fits ==
    ASSUME NEW w \in Nat, NEW c \in Nat \ {0}
    PROVE  w \div c \in Nat /\ c * (w \div c) <= w
  BY Quotient

\* The last row is within the grid.
LEMMA RowInGrid ==
    ASSUME NEW n \in Nat \ {0}, NEW c \in 1..n, NEW i \in 0..(n - 1)
    PROVE  /\ (n + c - 1) \div c \in Nat \ {0}
           /\ i \div c \in Nat
           /\ i \div c < (n + c - 1) \div c
<1> DEFINE q == i \div c
           r == (n + c - 1) \div c
<1>1. c \in Nat \ {0} /\ i \in Nat /\ n + c - 1 \in Nat
  OBVIOUS
<1>2. q \in Nat /\ i % c \in 0..(c - 1) /\ i = c * q + (i % c)
  BY <1>1, Quotient
<1>3. r \in Nat /\ (n + c - 1) % c \in 0..(c - 1) /\ n + c - 1 = c * r + ((n + c - 1) % c)
  BY <1>1, Quotient
<1>4. c * q < c * r
  <2>1. c * q \in Int /\ c * r \in Int
    BY <1>1, <1>2, <1>3
  <2> QED
    BY <1>2, <1>3, <2>1
<1>5. q < r
  <2>1. ASSUME r <= q PROVE FALSE
    <3> HIDE DEF q, r
    <3>1. PICK d \in Nat : q = r + d
      <4>1. q - r \in Nat /\ q = r + (q - r)
        BY <1>2, <1>3, <2>1
      <4> QED
        BY <4>1
    <3>2. c * q = c * r + c * d /\ c * d \in Nat /\ c * r \in Nat
      BY <1>1, <1>3, <3>1
    <3> QED
      BY <1>4, <3>2
  <2> QED
    BY <1>2, <1>3, <2>1
<1> QED
  BY <1>2, <1>3, <1>5

-----------------------------------------------------------------------------
(* The tiles of one grid *)

LEMMA IndexType ==
    ASSUME NEW ids \in SUBSET Nat, IsFiniteSet(ids), NEW id \in ids
    PROVE  Index(id, ids) \in 0..(Cardinality(ids) - 1)
<1> DEFINE S == {j \in ids : j < id}
<1>1. S \subseteq ids /\ id \notin S
  OBVIOUS
<1>2. IsFiniteSet(S) /\ Cardinality(S) <= Cardinality(ids) /\ Cardinality(S) # Cardinality(ids)
  BY <1>1, FS_Subset
<1>3. Cardinality(S) \in Nat /\ Cardinality(ids) \in Nat
  BY <1>2, FS_CardinalityType
<1> QED
  BY <1>2, <1>3 DEF Index

\* Sorting gives different IDs different positions.
LEMMA IndexOrdered ==
    ASSUME NEW ids \in SUBSET Nat, IsFiniteSet(ids), NEW i \in ids, NEW j \in ids, i < j
    PROVE  Index(i, ids) # Index(j, ids)
<1> DEFINE S == {k \in ids : k < i}
           T == {k \in ids : k < j}
<1>0. i \in Nat /\ j \in Nat /\ \A k \in ids : k \in Nat /\ (k < i => k < j)
  <2>1. i \in Nat /\ j \in Nat
    OBVIOUS
  <2>2. ASSUME NEW k \in ids PROVE k \in Nat /\ (k < i => k < j)
    <3>1. k \in Nat
      OBVIOUS
    <3> QED
      BY <2>1, <3>1
  <2> QED
    BY <2>1, <2>2
<1>1. S \subseteq T /\ i \in T /\ i \notin S /\ T \subseteq ids
  <2>1. ~(i < i)
    BY <1>0
  <2> QED
    BY <1>0, <2>1
<1>2. IsFiniteSet(T)
  BY <1>1, FS_Subset
<1>3. Cardinality(S) # Cardinality(T)
  BY <1>1, <1>2, FS_Subset
<1> QED
  BY <1>3 DEF Index

\* The rectangle of the i-th of n tiles.
Tile(i, n, xOff) == Cell(i, Cols(n), Width \div Cols(n), Height \div Rows(n), xOff)

LEMMA TileInside ==
    ASSUME NEW n \in Nat \ {0}, NEW i \in 0..(n - 1), NEW xOff \in Int
    PROVE  LET t == Tile(i, n, xOff)
           IN  /\ t.x \in Int /\ t.y \in Int /\ t.w \in Nat /\ t.h \in Nat
               /\ t.x >= xOff /\ t.x + t.w <= xOff + Width
               /\ t.y >= 0 /\ t.y + t.h <= Height
<1> DEFINE c == Cols(n)
           r == Rows(n)
           w == Width \div c
           h == Height \div r
           a == i % c
           b == i \div c
<1>1. c \in 1..n /\ c \in Nat \ {0} /\ i \in Nat
  BY ColsType
<1>2. r \in Nat \ {0} /\ b \in Nat /\ b < r
  BY <1>1, RowInGrid DEF Rows
<1>3. a \in Nat /\ a < c
  <2> HIDE DEF c
  <2>1. a \in 0..(c - 1)
    BY <1>1, Quotient
  <2> HIDE DEF a
  <2> QED
    BY <1>1, <2>1
<1>4. w \in Nat /\ c * w <= Width /\ Width \in Nat
  BY <1>1, Fits, CanvasAssumption
<1>5. h \in Nat /\ r * h <= Height /\ Height \in Nat
  BY <1>2, Fits, CanvasAssumption
<1>6. Tile(i, n, xOff) = [x |-> xOff + a * w, y |-> b * h, w |-> w, h |-> h]
  BY DEF Tile, Cell
<1> HIDE DEF c, r, w, h, a, b
<1>7. a * w + w <= c * w /\ a * w \in Nat /\ c * w \in Nat
  BY <1>1, <1>3, <1>4, Apart
<1>8. b * h + h <= r * h /\ b * h \in Nat /\ r * h \in Nat
  BY <1>2, <1>5, Apart
<1> QED
  BY <1>4, <1>5, <1>6, <1>7, <1>8

LEMMA TilesApart ==
    ASSUME NEW n \in Nat \ {0}, NEW i \in 0..(n - 1), NEW j \in 0..(n - 1), i # j, NEW xOff \in Int
    PROVE  Disjoint(Tile(i, n, xOff), Tile(j, n, xOff))
<1> DEFINE c == Cols(n)
           w == Width \div c
           h == Height \div Rows(n)
<1>1. c \in 1..n /\ c \in Nat \ {0} /\ i \in Nat /\ j \in Nat
  BY ColsType
<1>2. Rows(n) \in Nat \ {0}
  BY <1>1, RowInGrid DEF Rows
<1>3. w \in Nat /\ h \in Nat
  BY <1>1, <1>2, Fits, CanvasAssumption
<1>4. /\ i % c \in Nat /\ i \div c \in Nat /\ i = c * (i \div c) + (i % c)
      /\ j % c \in Nat /\ j \div c \in Nat /\ j = c * (j \div c) + (j % c)
  <2> HIDE DEF c
  <2>1. \A k \in {i, j} : /\ k \div c \in Nat
                          /\ k % c \in 0..(c - 1)
                          /\ k = c * (k \div c) + (k % c)
    BY <1>1, Quotient
  <2>2. 0..(c - 1) \subseteq Nat
    BY <1>1
  <2> QED
    BY <2>1, <2>2
<1>5. /\ Tile(i, n, xOff) = [x |-> xOff + (i % c) * w, y |-> (i \div c) * h, w |-> w, h |-> h]
      /\ Tile(j, n, xOff) = [x |-> xOff + (j % c) * w, y |-> (j \div c) * h, w |-> w, h |-> h]
  BY DEF Tile, Cell
<1> HIDE DEF c, w, h
<1>6. CASE i \div c # j \div c
  <2>1. (i \div c) * h \in Nat /\ (j \div c) * h \in Nat
    BY <1>3, <1>4
  <2>2. (i \div c) * h + h <= (j \div c) * h \/ (j \div c) * h + h <= (i \div c) * h
    BY <1>3, <1>4, <1>6, Apart
  <2> QED
    BY <1>5, <2>2 DEF Disjoint
<1>7. CASE i \div c = j \div c
  <2>1. i % c # j % c
    BY <1>4, <1>7
  <2>2. (i % c) * w \in Nat /\ (j % c) * w \in Nat
    BY <1>3, <1>4
  <2>3. (i % c) * w + w <= (j % c) * w \/ (j % c) * w + w <= (i % c) * w
    <3>1. i % c < j % c \/ j % c < i % c
      BY <1>4, <2>1
    <3> QED
      BY <1>3, <1>4, <3>1, Apart
  <2>4. \/ xOff + (i % c) * w + w <= xOff + (j % c) * w
        \/ xOff + (j % c) * w + w <= xOff + (i % c) * w
    BY <1>3, <2>2, <2>3
  <2> QED
    BY <1>5, <2>4 DEF Disjoint
<1> QED
  BY <1>6, <1>7

-----------------------------------------------------------------------------
(* The layout *)

\* layoutGrid puts every ID on a tile of its own.
LEMMA GridTiles ==
    ASSUME NEW ids \in SUBSET Nat, IsFiniteSet(ids), NEW xOff \in Int, NEW i \in ids
    PROVE  /\ LET t == layoutGrid(ids, xOff)[i]
              IN  /\ t.x \in Int /\ t.y \in Int /\ t.w \in Nat /\ t.h \in Nat
                  /\ t.x >= xOff /\ t.x + t.w <= xOff + Width
                  /\ t.y >= 0 /\ t.y + t.h <= Height
           /\ \A j \in ids : i # j => Disjoint(layoutGrid(ids, xOff)[i], layoutGrid(ids, xOff)[j])
<1> DEFINE n == Cardinality(ids)
<1>1. n \in Nat \ {0}
  BY FS_CardinalityType, FS_EmptySet
<1>2. \A j \in ids : /\ Index(j, ids) \in 0..(n - 1)
                     /\ layoutGrid(ids, xOff)[j] = Tile(Index(j, ids), n, xOff)
  BY IndexType DEF layoutGrid, Tile
<1>3. \A j \in ids : i # j => Index(i, ids) # Index(j, ids)
  <2> SUFFICES ASSUME NEW j \in ids, i # j PROVE Index(i, ids) # Index(j, ids)
    OBVIOUS
  <2>1. i < j \/ j < i
    <3>1. i \in Nat /\ j \in Nat
      OBVIOUS
    <3> QED
      BY <3>1
  <2> QED
    BY <2>1, IndexOrdered
<1> HIDE DEF n
<1>4. \A j \in ids : i # j => Disjoint(Tile(Index(i, ids), n, xOff), Tile(Index(j, ids), n, xOff))
  BY <1>1, <1>2, <1>3, TilesApart
<1> QED
  BY <1>1, <1>2, <1>4, TileInside

\* A legal layout of the inputs: TilesLegal, of any assignment of rectangles.
Legal(layout) ==
    /\ \A id \in DOMAIN layout :
          IF id \in Cameras /\ DOMAIN layout \cap Screens # {} THEN OffCanvas(layout[id])
                                                              ELSE OnCanvas(layout[id])
    /\ \A i, j \in DOMAIN layout : i # j => Disjoint(layout[i], layout[j])

LEMMA RelayoutLegal ==
    ASSUME NEW ids \in SUBSET Video
    PROVE  DOMAIN relayoutLocked(ids) = ids /\ Legal(relayoutLocked(ids))
<1> DEFINE screens == ids \cap Screens
           cameras == ids \ Screens
           xOff == IF screens = {} THEN 0 ELSE 0 - Width
           L == relayoutLocked(ids)
<1>1. /\ screens \in SUBSET Nat /\ IsFiniteSet(screens)
      /\ cameras \in SUBSET Nat /\ IsFiniteSet(cameras) /\ cameras \subseteq Cameras
  <2>1. screens \subseteq Screens /\ cameras \subseteq Cameras
    BY DEF Video
  <2> QED
    BY <2>1, FS_Subset, TracksAssumption
<1>2. DOMAIN L = ids
  BY DEF relayoutLocked
<1>3. /\ \A id \in screens : L[id] = layoutGrid(screens, 0)[id]
      /\ \A id \in cameras : L[id] = layoutGrid(cameras, xOff)[id]
  BY DEF relayoutLocked
<1>4. xOff \in Int /\ Width \in Nat /\ Height \in Nat
  BY CanvasAssumption
<1>5. ids = screens \cup cameras /\ screens \cap Cameras = {}
  BY TracksAssumption
<1> HIDE DEF L
<1>6. \A id \in screens :
        /\ OnCanvas(L[id]) /\ L[id].x \in Int /\ L[id].w \in Nat /\ L[id].x >= 0
        /\ \A j \in screens : id # j => Disjoint(L[id], L[j])
  <2>1. \A id \in screens :
          LET t == layoutGrid(screens, 0)[id]
          IN  /\ t.x \in Int /\ t.y \in Int /\ t.w \in Nat /\ t.h \in Nat
              /\ t.x >= 0 /\ t.x + t.w <= 0 + Width
              /\ t.y >= 0 /\ t.y + t.h <= Height
              /\ \A j \in screens : id # j => Disjoint(t, layoutGrid(screens, 0)[j])
    <3> HIDE DEF screens
    <3>1. 0 \in Int
      OBVIOUS
    <3> QED
      BY <1>1, <3>1, GridTiles
  <2> SUFFICES ASSUME NEW id \in screens
               PROVE  /\ OnCanvas(L[id]) /\ L[id].x \in Int /\ L[id].w \in Nat /\ L[id].x >= 0
                      /\ \A j \in screens : id # j => Disjoint(L[id], L[j])
    OBVIOUS
  <2>2. /\ L[id].x \in Int /\ L[id].y \in Int /\ L[id].w \in Nat /\ L[id].h \in Nat
        /\ L[id].x >= 0 /\ L[id].x + L[id].w <= 0 + Width
        /\ L[id].y >= 0 /\ L[id].y + L[id].h <= Height
        /\ \A j \in screens : id # j => Disjoint(L[id], L[j])
    BY <1>3, <2>1, Zenon
  <2>3. OnCanvas(L[id])
    BY <1>4, <2>2 DEF OnCanvas
  <2> QED
    BY <2>2, <2>3
<1>7. \A id \in cameras :
        /\ L[id].x \in Int /\ L[id].w \in Nat
        /\ IF screens = {} THEN OnCanvas(L[id]) ELSE OffCanvas(L[id])
        /\ \A j \in cameras : id # j => Disjoint(L[id], L[j])
  <2>1. \A id \in cameras :
          LET t == layoutGrid(cameras, xOff)[id]
          IN  /\ t.x \in Int /\ t.y \in Int /\ t.w \in Nat /\ t.h \in Nat
              /\ t.x >= xOff /\ t.x + t.w <= xOff + Width
              /\ t.y >= 0 /\ t.y + t.h <= Height
              /\ \A j \in cameras : id # j => Disjoint(t, layoutGrid(cameras, xOff)[j])
    BY <1>1, <1>4, GridTiles
  <2> SUFFICES ASSUME NEW id \in cameras
               PROVE  /\ L[id].x \in Int /\ L[id].w \in Nat
                      /\ IF screens = {} THEN OnCanvas(L[id]) ELSE OffCanvas(L[id])
                      /\ \A j \in cameras : id # j => Disjoint(L[id], L[j])
    OBVIOUS
  <2>2. /\ L[id].x \in Int /\ L[id].y \in Int /\ L[id].w \in Nat /\ L[id].h \in Nat
        /\ L[id].x >= xOff /\ L[id].x + L[id].w <= xOff + Width
        /\ L[id].y >= 0 /\ L[id].y + L[id].h <= Height
        /\ \A j \in cameras : id # j => Disjoint(L[id], L[j])
    BY <1>3, <2>1, Zenon
  <2>3. screens = {} => OnCanvas(L[id])
    BY <1>4, <2>2 DEF OnCanvas
  <2>4. screens # {} => OffCanvas(L[id])
    BY <1>4, <2>2 DEF OffCanvas
  <2> QED
    BY <2>2, <2>3, <2>4
<1>8. \A i \in screens, j \in cameras : Disjoint(L[i], L[j]) /\ Disjoint(L[j], L[i])
  <2> SUFFICES ASSUME NEW i \in screens, NEW j \in cameras
               PROVE  L[j].x + L[j].w <= L[i].x
    BY DEF Disjoint
  <2> QED
    BY <1>6, <1>7 DEF OffCanvas
<1>9. \A i, j \in ids : i # j => Disjoint(L[i], L[j])
  BY <1>5, <1>6, <1>7, <1>8
<1>10. \A id \in ids : IF id \in Cameras /\ screens # {} THEN OffCanvas(L[id]) ELSE OnCanvas(L[id])
  BY <1>1, <1>5, <1>6, <1>7
<1> QED
  BY <1>2, <1>9, <1>10 DEF Legal, L

-----------------------------------------------------------------------------
(* The compositor *)

\* Every operation ends with a layout of exactly the inputs it leaves.
LaidOut == DOMAIN pads \subseteq Video /\ Legal(pads)

LEMMA NoTiles ==
    ASSUME NEW p, p = [id \in {} |-> {}]
    PROVE  DOMAIN p = {} /\ Legal(p)
  BY DEF Legal

LEMMA LaidOutStep ==
    ASSUME LaidOut,
           \/ NewCompositor \/ CloseCompositor \/ UNCHANGED compVars
           \/ \E id \in Video : AddInput(id) \/ RemoveInput(id)
    PROVE  LaidOut'
<1>1. CASE NewCompositor
  BY <1>1, NoTiles DEF NewCompositor, LaidOut
<1>2. ASSUME NEW id \in Video, AddInput(id) PROVE LaidOut'
  <2>1. DOMAIN pads \cup {id} \in SUBSET Video
    BY DEF LaidOut
  <2> QED
    BY <1>2, <2>1, RelayoutLegal DEF AddInput, LaidOut
<1>3. ASSUME NEW id \in Video, RemoveInput(id) PROVE LaidOut'
  <2>1. DOMAIN pads \ {id} \in SUBSET Video
    BY DEF LaidOut
  <2> QED
    BY <1>3, <2>1, RelayoutLegal DEF RemoveInput, LaidOut
<1>4. CASE CloseCompositor
  BY <1>4, NoTiles DEF CloseCompositor, LaidOut
<1>5. CASE UNCHANGED compVars
  BY <1>5 DEF compVars, LaidOut
<1> QED
  BY <1>1, <1>2, <1>3, <1>4, <1>5

\* gst.go, relayoutLocked: for every canvas and any number of cameras and
\* screen shares, whatever order they come and go in, the visible tiles lie
\* within the canvas, no tile covers another, and cameras are off the canvas
\* exactly while a screen is shared.
THEOREM CompositorTilesLegal == CompSpec => []TilesLegal
<1>1. CompInit => LaidOut
  BY NoTiles DEF CompInit, LaidOut
<1>2. LaidOut /\ [CompNext]_compVars => LaidOut'
  BY LaidOutStep DEF CompNext
<1>3. LaidOut => TilesLegal
  BY DEF LaidOut, Legal, TilesLegal
<1> QED
  BY <1>1, <1>2, <1>3, PTL DEF CompSpec

-----------------------------------------------------------------------------
(* The room *)

\* What the compositor's operations do to the set of tiles.
LEMMA RelayoutDomain ==
    ASSUME NEW ids
    PROVE  DOMAIN relayoutLocked(ids) = ids
  BY DEF relayoutLocked

LEMMA PadsStep ==
    /\ NewCompositor => pipeline' = "open" /\ DOMAIN pads' = {}
    /\ CloseCompositor => pipeline' = "closed" /\ DOMAIN pads' = {}
    /\ \A t : AddInput(t) => /\ pipeline = "open" /\ UNCHANGED pipeline
                             /\ DOMAIN pads' = DOMAIN pads \cup {t}
    /\ \A t : RemoveInput(t) => UNCHANGED pipeline /\ DOMAIN pads' = DOMAIN pads \ {t}
<1>1. NewCompositor => pipeline' = "open" /\ DOMAIN pads' = {}
  BY DEF NewCompositor
<1>2. CloseCompositor => pipeline' = "closed" /\ DOMAIN pads' = {}
  BY DEF CloseCompositor
<1>3. ASSUME NEW t, AddInput(t)
      PROVE  /\ pipeline = "open" /\ UNCHANGED pipeline
             /\ DOMAIN pads' = DOMAIN pads \cup {t}
  BY <1>3, RelayoutDomain DEF AddInput, AddInputFails
<1>4. ASSUME NEW t, RemoveInput(t)
      PROVE  UNCHANGED pipeline /\ DOMAIN pads' = DOMAIN pads \ {t}
  BY <1>4, RelayoutDomain DEF RemoveInput
<1> QED
  BY <1>1, <1>2, <1>3, <1>4

\* Only video tracks get as far as the compositor.
TrackInv ==
    /\ track \in [Tracks -> {"none", "wanted", "live", "ended"}]
    /\ pump \in [Tracks -> {"none", "start", "add", "register", "loop", "remove", "close", "done"}]
    /\ unsub \in [Tracks -> {"none", "pending", "close", "done"}]
    /\ inputs \subseteq Video
    /\ \A t \in Tracks :
          unsub[t] = "close" \/ pump[t] \in {"add", "register", "remove", "close"} => t \in Video

\* A track is subscribed to, and unsubscribed, once.
OnceInv ==
    \A t \in Tracks :
        /\ track[t] \in {"none", "wanted"} => pump[t] = "none"
        /\ unsub[t] # "none" => track[t] = "ended"

\* The compositor lives from EnableVideo to closeVideo.
ClosingInv ==
    /\ cl \in {"idle", "comp", "room", "done"}
    /\ comp \in BOOLEAN
    /\ cl = "idle" => pipeline = IF comp THEN "open" ELSE "none"
    /\ cl = "comp" => pipeline = "open"
    /\ cl \in {"room", "done"} => pipeline # "open"
    /\ pipeline # "open" => DOMAIN pads = {}

\* The SDK is connected only while r.room is set.
ConnInv ==
    /\ sdk \in BOOLEAN /\ room \in BOOLEAN
    /\ sdk => room
    /\ room => own # "new"
    /\ cl = "done" => ~room

\* Every tile has somebody to remove it.
TileInv ==
    /\ DOMAIN pads \subseteq Video
    /\ \A t \in DOMAIN pads : Removing(t)

RoomInv == TrackInv /\ OnceInv /\ ClosingInv /\ ConnInv /\ TileInv

LEMMA RoomInit == Init => RoomInv
<1> SUFFICES ASSUME Init PROVE RoomInv
  OBVIOUS
<1>1. pipeline = "none" /\ DOMAIN pads = {}
  BY NoTiles DEF Init, CompInit
<1>2. TrackInv
  BY DEF Init, TrackInv
<1>3. OnceInv
  BY DEF Init, OnceInv
<1>4. ClosingInv /\ ConnInv
  BY <1>1 DEF Init, ClosingInv, ConnInv
<1> QED
  BY <1>1, <1>2, <1>3, <1>4 DEF RoomInv, TileInv

\* A track keeps its kind.
LEMMA TrackStep ==
    ASSUME TrackInv,
           [Next]_vars
    PROVE  TrackInv'
<1> USE DEF TrackInv, Tracks, Peers, sdkVars, subVars, videoVars, connVars, pumpVars
<1>1. CASE Connect
  BY <1>1 DEF Connect
<1>2. CASE EnableVideo
  BY <1>2 DEF EnableVideo
<1>3. CASE SubscribeBegins \/ SubscribePanics
  BY <1>3 DEF SubscribeBegins, FlagFirst, Listed, SubscribePanics, SubscribeUnchanged
<1>4. ASSUME NEW t \in Peers, SubscribeTakes(t)
      PROVE  TrackInv'
  BY <1>4 DEF SubscribeTakes, SubscribeTo, SubscribeUnchanged, Tracks
<1>5. ASSUME NEW t \in Peers, Callback(t)
      PROVE  TrackInv'
  BY <1>5 DEF Callback, SubscribeTo, SubscribeUnchanged, Tracks
<1>6. ASSUME NEW t \in Peers, PeerAppears(t)
      PROVE  TrackInv'
  BY <1>6 DEF PeerAppears, SdkUnchanged
<1>7. ASSUME NEW t \in Tracks, PeerLeaves(t)
      PROVE  TrackInv'
  BY <1>7 DEF PeerLeaves, SdkUnchanged
<1>8. ASSUME NEW t \in Tracks, OnTrackSubscribed(t)
      PROVE  TrackInv'
  BY <1>8 DEF OnTrackSubscribed, SdkUnchanged
<1>9. CASE RoomDisconnects
  BY <1>9 DEF RoomDisconnects, AllEnded
<1>10. ASSUME NEW t \in Tracks, OnTrackUnsubscribed(t)
      PROVE  TrackInv'
  BY <1>10 DEF OnTrackUnsubscribed, CloseInput, PumpUnchanged
<1>11. ASSUME NEW t \in Tracks, AudioStarts(t) \/ AudioEnds(t) \/ VideoStarts(t)
      PROVE  TrackInv'
  BY <1>11 DEF AudioStarts, AudioEnds, VideoStarts, PumpTo, PumpUnchanged
<1>12. ASSUME NEW t \in Tracks, VideoAdds(t)
      PROVE  TrackInv'
  BY <1>12 DEF VideoAdds, PumpTo, PumpUnchanged
<1>13. ASSUME NEW t \in Tracks, VideoRegisters(t)
      PROVE  TrackInv'
  BY <1>13 DEF VideoRegisters, PumpTo, PumpUnchanged
<1>14. ASSUME NEW t \in Tracks, VideoEnds(t)
      PROVE  TrackInv'
  BY <1>14 DEF VideoEnds, PumpTo, PumpUnchanged
<1>15. ASSUME NEW t \in Tracks, VideoRemoves(t)
      PROVE  TrackInv'
  BY <1>15 DEF VideoRemoves, CloseInput, PumpTo, PumpUnchanged
<1>16. CASE CloseBegins
  BY <1>16 DEF CloseBegins, CloseUnchanged
<1>17. CASE CloseComp
  BY <1>17 DEF CloseComp, CompositorClosed, CloseUnchanged
<1>18. CASE CloseRoom
  BY <1>18 DEF CloseRoom, AllEnded, CloseUnchanged
<1>19. CASE UNCHANGED vars
  BY <1>19 DEF vars, compVars
<1> QED
  BY <1>1, <1>2, <1>3, <1>4, <1>5, <1>6, <1>7, <1>8, <1>9, <1>10, <1>11, <1>12, <1>13, <1>14,
     <1>15, <1>16, <1>17, <1>18, <1>19 DEF Next, Pump, Close

\* Nothing starts a second goroutine, or a second callback, for a track.
LEMMA OnceStep ==
    ASSUME TrackInv, OnceInv,
           [Next]_vars
    PROVE  OnceInv'
<1> USE DEF TrackInv, OnceInv, sdkVars, subVars, videoVars, connVars, pumpVars
<1>1. CASE Connect
  BY <1>1 DEF Connect
<1>2. CASE EnableVideo
  BY <1>2 DEF EnableVideo
<1>3. CASE SubscribeBegins \/ SubscribePanics
  BY <1>3 DEF SubscribeBegins, FlagFirst, Listed, SubscribePanics, SubscribeUnchanged
<1>4. ASSUME NEW t \in Peers, SubscribeTakes(t)
      PROVE  OnceInv'
  BY <1>4 DEF SubscribeTakes, SubscribeTo, SubscribeUnchanged, Tracks
<1>5. ASSUME NEW t \in Peers, Callback(t)
      PROVE  OnceInv'
  BY <1>5 DEF Callback, SubscribeTo, SubscribeUnchanged, Tracks
<1>6. ASSUME NEW t \in Peers, PeerAppears(t)
      PROVE  OnceInv'
  BY <1>6 DEF PeerAppears, SdkUnchanged
<1>7. ASSUME NEW t \in Tracks, PeerLeaves(t)
      PROVE  OnceInv'
  BY <1>7 DEF PeerLeaves, SdkUnchanged
<1>8. ASSUME NEW t \in Tracks, OnTrackSubscribed(t)
      PROVE  OnceInv'
  BY <1>8 DEF OnTrackSubscribed, SdkUnchanged
<1>9. CASE RoomDisconnects
  BY <1>9 DEF RoomDisconnects, AllEnded
<1>10. ASSUME NEW t \in Tracks, OnTrackUnsubscribed(t)
      PROVE  OnceInv'
  BY <1>10 DEF OnTrackUnsubscribed, CloseInput, PumpUnchanged
<1>11. ASSUME NEW t \in Tracks, AudioStarts(t) \/ AudioEnds(t) \/ VideoStarts(t)
      PROVE  OnceInv'
  BY <1>11 DEF AudioStarts, AudioEnds, VideoStarts, PumpTo, PumpUnchanged
<1>12. ASSUME NEW t \in Tracks, VideoAdds(t)
      PROVE  OnceInv'
  BY <1>12 DEF VideoAdds, PumpTo, PumpUnchanged
<1>13. ASSUME NEW t \in Tracks, VideoRegisters(t)
      PROVE  OnceInv'
  BY <1>13 DEF VideoRegisters, PumpTo, PumpUnchanged
<1>14. ASSUME NEW t \in Tracks, VideoEnds(t)
      PROVE  OnceInv'
  BY <1>14 DEF VideoEnds, PumpTo, PumpUnchanged
<1>15. ASSUME NEW t \in Tracks, VideoRemoves(t)
      PROVE  OnceInv'
  BY <1>15 DEF VideoRemoves, CloseInput, PumpTo, PumpUnchanged
<1>16. CASE CloseBegins
  BY <1>16 DEF CloseBegins, CloseUnchanged
<1>17. CASE CloseComp
  BY <1>17 DEF CloseComp, CompositorClosed, CloseUnchanged
<1>18. CASE CloseRoom
  BY <1>18 DEF CloseRoom, AllEnded, CloseUnchanged
<1>19. CASE UNCHANGED vars
  BY <1>19 DEF vars, compVars
<1> QED
  BY <1>1, <1>2, <1>3, <1>4, <1>5, <1>6, <1>7, <1>8, <1>9, <1>10, <1>11, <1>12, <1>13, <1>14,
     <1>15, <1>16, <1>17, <1>18, <1>19 DEF Next, Pump, Close

\* The owner does not enable video once the room is being closed.
LEMMA ClosingStep ==
    ASSUME TrackInv, ClosingInv,
           ~LateVideo, ~EarlyClose,
           [Next]_vars
    PROVE  ClosingInv'
<1> USE DEF ClosingInv, sdkVars, subVars, videoVars, connVars, pumpVars
<1>1. CASE Connect
  BY <1>1 DEF Connect, compVars
<1>2. CASE EnableVideo
  BY <1>2, PadsStep DEF EnableVideo, compVars
<1>3. CASE SubscribeBegins \/ SubscribePanics
  BY <1>3 DEF SubscribeBegins, FlagFirst, Listed, SubscribePanics, SubscribeUnchanged, compVars
<1>4. ASSUME NEW t \in Peers, SubscribeTakes(t)
      PROVE  ClosingInv'
  BY <1>4 DEF SubscribeTakes, SubscribeTo, SubscribeUnchanged, Tracks, compVars
<1>5. ASSUME NEW t \in Peers, Callback(t)
      PROVE  ClosingInv'
  BY <1>5 DEF Callback, SubscribeTo, SubscribeUnchanged, Tracks, compVars
<1>6. ASSUME NEW t \in Peers, PeerAppears(t)
      PROVE  ClosingInv'
  BY <1>6 DEF PeerAppears, SdkUnchanged, compVars
<1>7. ASSUME NEW t \in Tracks, PeerLeaves(t)
      PROVE  ClosingInv'
  BY <1>7 DEF PeerLeaves, SdkUnchanged, compVars
<1>8. ASSUME NEW t \in Tracks, OnTrackSubscribed(t)
      PROVE  ClosingInv'
  BY <1>8 DEF OnTrackSubscribed, SdkUnchanged, compVars
<1>9. CASE RoomDisconnects
  BY <1>9 DEF RoomDisconnects, AllEnded, compVars
<1>10. ASSUME NEW t \in Tracks, OnTrackUnsubscribed(t)
      PROVE  ClosingInv'
  BY <1>10, PadsStep DEF OnTrackUnsubscribed, CloseInput, PumpUnchanged, compVars
<1>11. ASSUME NEW t \in Tracks, AudioStarts(t) \/ AudioEnds(t) \/ VideoStarts(t)
      PROVE  ClosingInv'
  BY <1>11 DEF AudioStarts, AudioEnds, VideoStarts, PumpTo, PumpUnchanged, compVars
<1>12. ASSUME NEW t \in Tracks, VideoAdds(t)
      PROVE  ClosingInv'
  BY <1>12, PadsStep DEF VideoAdds, PumpTo, PumpUnchanged, compVars
<1>13. ASSUME NEW t \in Tracks, VideoRegisters(t)
      PROVE  ClosingInv'
  BY <1>13 DEF VideoRegisters, PumpTo, PumpUnchanged, compVars
<1>14. ASSUME NEW t \in Tracks, VideoEnds(t)
      PROVE  ClosingInv'
  BY <1>14 DEF VideoEnds, PumpTo, PumpUnchanged, compVars
<1>15. ASSUME NEW t \in Tracks, VideoRemoves(t)
      PROVE  ClosingInv'
  BY <1>15, PadsStep DEF VideoRemoves, CloseInput, PumpTo, PumpUnchanged, compVars
<1>16. CASE CloseBegins
  BY <1>16 DEF CloseBegins, CloseUnchanged, compVars
<1>17. CASE CloseComp
  BY <1>17, PadsStep DEF CloseComp, CompositorClosed, CloseUnchanged, compVars
<1>18. CASE CloseRoom
  BY <1>18 DEF CloseRoom, AllEnded, CloseUnchanged, compVars
<1>19. CASE UNCHANGED vars
  BY <1>19 DEF vars, compVars
<1> QED
  BY <1>1, <1>2, <1>3, <1>4, <1>5, <1>6, <1>7, <1>8, <1>9, <1>10, <1>11, <1>12, <1>13, <1>14,
     <1>15, <1>16, <1>17, <1>18, <1>19 DEF Next, Pump, Close

\* Nor does it connect.
LEMMA ConnStep ==
    ASSUME ClosingInv, ConnInv,
           ~LateVideo, ~EarlyClose,
           [Next]_vars
    PROVE  ConnInv'
<1> USE DEF ConnInv, ClosingInv, sdkVars, subVars, videoVars, connVars, pumpVars
<1>1. CASE Connect
  <2>1. cl = "idle" /\ UNCHANGED cl /\ own' # "new"
    BY <1>1 DEF Connect
  <2>2. (sdk' = TRUE /\ room' = TRUE) \/ (sdk' = sdk /\ room' = room)
    BY <1>1 DEF Connect
  <2>3. sdk' \in BOOLEAN /\ room' \in BOOLEAN /\ (sdk' => room')
    <3>1. CASE sdk' = TRUE /\ room' = TRUE
      BY <3>1, Zenon
    <3>2. CASE sdk' = sdk /\ room' = room
      BY <3>2, Zenon
    <3> QED
      BY <2>2, <3>1, <3>2
  <2>4. cl' = "idle"
    BY <2>1
  <2> QED
    BY <2>1, <2>3, <2>4, Zenon
<1>2. CASE EnableVideo
  BY <1>2 DEF EnableVideo
<1>3. CASE SubscribeBegins \/ SubscribePanics
  BY <1>3 DEF SubscribeBegins, FlagFirst, Listed, SubscribePanics, SubscribeUnchanged
<1>4. ASSUME NEW t \in Peers, SubscribeTakes(t)
      PROVE  ConnInv'
  BY <1>4 DEF SubscribeTakes, SubscribeTo, SubscribeUnchanged, Tracks
<1>5. ASSUME NEW t \in Peers, Callback(t)
      PROVE  ConnInv'
  BY <1>5 DEF Callback, SubscribeTo, SubscribeUnchanged, Tracks
<1>6. ASSUME NEW t \in Peers, PeerAppears(t)
      PROVE  ConnInv'
  BY <1>6 DEF PeerAppears, SdkUnchanged
<1>7. ASSUME NEW t \in Tracks, PeerLeaves(t)
      PROVE  ConnInv'
  BY <1>7 DEF PeerLeaves, SdkUnchanged
<1>8. ASSUME NEW t \in Tracks, OnTrackSubscribed(t)
      PROVE  ConnInv'
  BY <1>8 DEF OnTrackSubscribed, SdkUnchanged
<1>9. CASE RoomDisconnects
  BY <1>9 DEF RoomDisconnects, AllEnded
<1>10. ASSUME NEW t \in Tracks, OnTrackUnsubscribed(t)
      PROVE  ConnInv'
  BY <1>10 DEF OnTrackUnsubscribed, CloseInput, PumpUnchanged
<1>11. ASSUME NEW t \in Tracks, AudioStarts(t) \/ AudioEnds(t) \/ VideoStarts(t)
      PROVE  ConnInv'
  BY <1>11 DEF AudioStarts, AudioEnds, VideoStarts, PumpTo, PumpUnchanged
<1>12. ASSUME NEW t \in Tracks, VideoAdds(t)
      PROVE  ConnInv'
  BY <1>12 DEF VideoAdds, PumpTo, PumpUnchanged
<1>13. ASSUME NEW t \in Tracks, VideoRegisters(t)
      PROVE  ConnInv'
  BY <1>13 DEF VideoRegisters, PumpTo, PumpUnchanged
<1>14. ASSUME NEW t \in Tracks, VideoEnds(t)
      PROVE  ConnInv'
  BY <1>14 DEF VideoEnds, PumpTo, PumpUnchanged
<1>15. ASSUME NEW t \in Tracks, VideoRemoves(t)
      PROVE  ConnInv'
  BY <1>15 DEF VideoRemoves, CloseInput, PumpTo, PumpUnchanged
<1>16. CASE CloseBegins
  BY <1>16 DEF CloseBegins, CloseUnchanged
<1>17. CASE CloseComp
  BY <1>17 DEF CloseComp, CompositorClosed, CloseUnchanged
<1>18. CASE CloseRoom
  BY <1>18 DEF CloseRoom, AllEnded, CloseUnchanged
<1>19. CASE UNCHANGED vars
  BY <1>19 DEF vars, compVars
<1> QED
  BY <1>1, <1>2, <1>3, <1>4, <1>5, <1>6, <1>7, <1>8, <1>9, <1>10, <1>11, <1>12, <1>13, <1>14,
     <1>15, <1>16, <1>17, <1>18, <1>19 DEF Next, Pump, Close

\* Whoever takes the entry of a tile removes the tile; who finds none leaves it to
\* another.
LEMMA TileStep ==
    ASSUME RoomInv,
           ~LateVideo, ~EarlyClose,
           [Next]_vars
    PROVE  TileInv'
<1> USE DEF RoomInv, TrackInv, OnceInv, ClosingInv, TileInv, Removing, sdkVars, subVars,
            videoVars, connVars, pumpVars
<1>1. CASE Connect
  BY <1>1 DEF Connect, compVars
<1>2. CASE EnableVideo
  BY <1>2, PadsStep DEF EnableVideo, compVars
<1>3. CASE SubscribeBegins \/ SubscribePanics
  BY <1>3 DEF SubscribeBegins, FlagFirst, Listed, SubscribePanics, SubscribeUnchanged, compVars
<1>4. ASSUME NEW t \in Peers, SubscribeTakes(t)
      PROVE  TileInv'
  BY <1>4 DEF SubscribeTakes, SubscribeTo, SubscribeUnchanged, Tracks, compVars
<1>5. ASSUME NEW t \in Peers, Callback(t)
      PROVE  TileInv'
  BY <1>5 DEF Callback, SubscribeTo, SubscribeUnchanged, Tracks, compVars
<1>6. ASSUME NEW t \in Peers, PeerAppears(t)
      PROVE  TileInv'
  BY <1>6 DEF PeerAppears, SdkUnchanged, compVars
<1>7. ASSUME NEW t \in Tracks, PeerLeaves(t)
      PROVE  TileInv'
  <2> SUFFICES ASSUME NEW u \in DOMAIN pads'
               PROVE  u \in Video /\ Removing(u)'
    OBVIOUS
  <2>1. /\ u \in DOMAIN pads /\ u \in Video /\ u \in Tracks /\ Removing(u)
        /\ UNCHANGED <<pump, inputs, cl>>
    BY <1>7 DEF PeerLeaves, SdkUnchanged, compVars, Tracks
  <2>2. unsub[u] = "close" => unsub'[u] = "close"
    BY <1>7, <2>1 DEF PeerLeaves
  <2> QED
    BY <2>1, <2>2
<1>8. ASSUME NEW t \in Tracks, OnTrackSubscribed(t)
      PROVE  TileInv'
  BY <1>8 DEF OnTrackSubscribed, SdkUnchanged, compVars
<1>9. CASE RoomDisconnects
  BY <1>9 DEF RoomDisconnects, AllEnded, compVars
<1>10. ASSUME NEW t \in Tracks, OnTrackUnsubscribed(t)
      PROVE  TileInv'
  <2>1. UNCHANGED <<pump, cl>>
    BY <1>10 DEF OnTrackUnsubscribed, PumpUnchanged
  <2>2. CASE unsub[t] = "pending" /\ UNCHANGED compVars
    <3>1. /\ unsub' = [unsub EXCEPT ![t] = IF t \in inputs THEN "close" ELSE "done"]
          /\ inputs' = inputs \ {t} /\ UNCHANGED pads
      BY <1>10, <2>2 DEF OnTrackUnsubscribed, compVars
    <3> QED
      BY <2>1, <2>2, <3>1 DEF Tracks
  <2>3. CASE unsub[t] = "close" /\ RemoveInput(t)
    <3>1. unsub' = [unsub EXCEPT ![t] = "done"] /\ UNCHANGED inputs
      BY <1>10, <2>3 DEF OnTrackUnsubscribed
    <3>2. DOMAIN pads' = DOMAIN pads \ {t}
      BY <2>3, PadsStep
    <3> QED
      BY <2>1, <3>1, <3>2 DEF Tracks
  <2> QED
    BY <1>10, <2>2, <2>3 DEF OnTrackUnsubscribed, CloseInput
<1>11. ASSUME NEW t \in Tracks, AudioStarts(t) \/ AudioEnds(t) \/ VideoStarts(t)
      PROVE  TileInv'
  <2>1. UNCHANGED <<pads, inputs, unsub, cl>>
    BY <1>11 DEF AudioStarts, AudioEnds, VideoStarts, PumpUnchanged, compVars
  <2>2. \/ pump[t] = "start"
        \/ pump[t] = "loop" /\ t \in Audio
    BY <1>11 DEF AudioStarts, AudioEnds, VideoStarts
  <2>3. \A u \in Tracks : u # t => pump'[u] = pump[u]
    BY <1>11 DEF AudioStarts, AudioEnds, VideoStarts, PumpTo
  <2>4. t \notin Audio \/ t \notin inputs
    BY PeersAssumption
  <2> QED
    BY <2>1, <2>2, <2>3, <2>4 DEF Tracks
<1>12. ASSUME NEW t \in Tracks, VideoAdds(t)
      PROVE  TileInv'
  <2>1. UNCHANGED <<inputs, unsub, cl>> /\ pump[t] = "add"
    BY <1>12 DEF VideoAdds, PumpUnchanged
  <2>2. CASE AddInput(t) /\ PumpTo(t, "register")
    <3>1. DOMAIN pads' = DOMAIN pads \cup {t} /\ pump' = [pump EXCEPT ![t] = "register"]
      BY <2>2, PadsStep DEF PumpTo
    <3> QED
      BY <2>1, <3>1 DEF Tracks
  <2>3. CASE PumpTo(t, "done") /\ UNCHANGED compVars
    <3>1. UNCHANGED pads /\ pump' = [pump EXCEPT ![t] = "done"]
      BY <2>3 DEF PumpTo, compVars
    <3> QED
      BY <2>1, <3>1 DEF Tracks
  <2> QED
    BY <1>12, <2>2, <2>3 DEF VideoAdds
<1>13. ASSUME NEW t \in Tracks, VideoRegisters(t)
      PROVE  TileInv'
  <2>1. UNCHANGED <<pads, unsub, cl>> /\ pump[t] = "register"
    BY <1>13 DEF VideoRegisters, PumpUnchanged, compVars
  <2>2. CASE UNCHANGED <<inputs, pump>>
    BY <2>1, <2>2
  <2>3. CASE inputs' = inputs \cup {t} /\ PumpTo(t, "loop")
    <3>1. pump' = [pump EXCEPT ![t] = "loop"]
      BY <2>3 DEF PumpTo
    <3> QED
      BY <2>1, <2>3, <3>1 DEF Tracks
  <2> QED
    BY <1>13, <2>2, <2>3 DEF VideoRegisters
<1>14. ASSUME NEW t \in Tracks, VideoEnds(t)
      PROVE  TileInv'
  BY <1>14 DEF VideoEnds, PumpTo, PumpUnchanged, compVars
<1>15. ASSUME NEW t \in Tracks, VideoRemoves(t)
      PROVE  TileInv'
  <2>1. UNCHANGED <<unsub, cl>>
    BY <1>15 DEF VideoRemoves, PumpUnchanged
  <2>2. CASE pump[t] = "remove" /\ UNCHANGED compVars
    <3>1. /\ pump' = [pump EXCEPT ![t] = IF t \in inputs THEN "close" ELSE "done"]
          /\ inputs' = inputs \ {t} /\ UNCHANGED pads
      BY <1>15, <2>2 DEF VideoRemoves, PumpTo, compVars
    <3> QED
      BY <2>1, <2>2, <3>1 DEF Tracks
  <2>3. CASE pump[t] = "close" /\ RemoveInput(t)
    <3>1. pump' = [pump EXCEPT ![t] = "done"] /\ UNCHANGED inputs
      BY <1>15, <2>3 DEF VideoRemoves, PumpTo
    <3>2. DOMAIN pads' = DOMAIN pads \ {t}
      BY <2>3, PadsStep
    <3> QED
      BY <2>1, <3>1, <3>2 DEF Tracks
  <2> QED
    BY <1>15, <2>2, <2>3 DEF VideoRemoves, CloseInput
<1>16. CASE CloseBegins
  BY <1>16 DEF CloseBegins, CloseUnchanged, compVars
<1>17. CASE CloseComp
  BY <1>17, PadsStep DEF CloseComp, CompositorClosed, CloseUnchanged, compVars
<1>18. CASE CloseRoom
  BY <1>18 DEF CloseRoom, AllEnded, CloseUnchanged, compVars
<1>19. CASE UNCHANGED vars
  BY <1>19 DEF vars, compVars
<1> QED
  BY <1>1, <1>2, <1>3, <1>4, <1>5, <1>6, <1>7, <1>8, <1>9, <1>10, <1>11, <1>12, <1>13, <1>14,
     <1>15, <1>16, <1>17, <1>18, <1>19 DEF Next, Pump, Close

LEMMA RoomStep ==
    ASSUME RoomInv, ~LateVideo, ~EarlyClose, [Next]_vars
    PROVE  RoomInv'
<1>1. TrackInv' /\ OnceInv'
  BY TrackStep, OnceStep DEF RoomInv
<1>2. ClosingInv' /\ ConnInv'
  BY ClosingStep, ConnStep DEF RoomInv
<1> QED
  BY <1>1, <1>2, TileStep DEF RoomInv

LEMMA RoomInvariant ==
    ASSUME ~LateVideo, ~EarlyClose
    PROVE  Spec => []RoomInv
<1>1. RoomInv /\ [Next]_vars => RoomInv'
  BY RoomStep
<1> QED
  BY <1>1, RoomInit, PTL DEF Spec

\* room_video.go: for any number of participants, tracks and faults, a tile
\* always has somebody who will remove it (OnTrackUnsubscribed, its pump or
\* closeVideo), and a closed room leaves neither compositor nor connection
\* behind, whether or not it was connected before.  The owner of the room does
\* not go on setting it up once it is closed, as it does when Server.Stop
\* interferes.
THEOREM TilesRemoved ==
    ASSUME ~LateVideo, ~EarlyClose
    PROVE  Spec => []NoGhosts
<1>1. RoomInv => NoGhosts
  BY DEF RoomInv, TileInv, ClosingInv, ConnInv, NoGhosts
<1> QED
  BY <1>1, RoomInvariant, PTL

\* What the room's threads do to the compositor is one of its operations.
CompOp ==
    \/ EnableVideo /\ NewCompositor
    \/ \E id \in Video : AddInput(id) \/ RemoveInput(id)
    \/ CloseComp /\ CloseCompositor
    \/ UNCHANGED compVars

LEMMA CompOpStep ==
    ASSUME TrackInv, [Next]_vars
    PROVE  CompOp
<1> USE DEF TrackInv, CompOp, sdkVars, subVars, videoVars, connVars, pumpVars
<1>1. CASE Connect
  BY <1>1 DEF Connect
<1>2. CASE EnableVideo
  BY <1>2 DEF EnableVideo
<1>3. CASE SubscribeBegins \/ SubscribePanics
  BY <1>3 DEF SubscribeBegins, FlagFirst, Listed, SubscribePanics, SubscribeUnchanged
<1>4. ASSUME NEW t \in Peers, SubscribeTakes(t)
      PROVE  CompOp
  BY <1>4 DEF SubscribeTakes, SubscribeTo, SubscribeUnchanged, Tracks
<1>5. ASSUME NEW t \in Peers, Callback(t)
      PROVE  CompOp
  BY <1>5 DEF Callback, SubscribeTo, SubscribeUnchanged, Tracks
<1>6. ASSUME NEW t \in Peers, PeerAppears(t)
      PROVE  CompOp
  BY <1>6 DEF PeerAppears, SdkUnchanged
<1>7. ASSUME NEW t \in Tracks, PeerLeaves(t)
      PROVE  CompOp
  BY <1>7 DEF PeerLeaves, SdkUnchanged
<1>8. ASSUME NEW t \in Tracks, OnTrackSubscribed(t)
      PROVE  CompOp
  BY <1>8 DEF OnTrackSubscribed, SdkUnchanged
<1>9. CASE RoomDisconnects
  BY <1>9 DEF RoomDisconnects, AllEnded
<1>10. ASSUME NEW t \in Tracks, OnTrackUnsubscribed(t)
      PROVE  CompOp
  BY <1>10 DEF OnTrackUnsubscribed, CloseInput, PumpUnchanged
<1>11. ASSUME NEW t \in Tracks, AudioStarts(t) \/ AudioEnds(t) \/ VideoStarts(t)
      PROVE  CompOp
  BY <1>11 DEF AudioStarts, AudioEnds, VideoStarts, PumpTo, PumpUnchanged
<1>12. ASSUME NEW t \in Tracks, VideoAdds(t)
      PROVE  CompOp
  BY <1>12 DEF VideoAdds, PumpTo, PumpUnchanged
<1>13. ASSUME NEW t \in Tracks, VideoRegisters(t)
      PROVE  CompOp
  BY <1>13 DEF VideoRegisters, PumpTo, PumpUnchanged
<1>14. ASSUME NEW t \in Tracks, VideoEnds(t)
      PROVE  CompOp
  BY <1>14 DEF VideoEnds, PumpTo, PumpUnchanged
<1>15. ASSUME NEW t \in Tracks, VideoRemoves(t)
      PROVE  CompOp
  BY <1>15 DEF VideoRemoves, CloseInput, PumpTo, PumpUnchanged
<1>16. CASE CloseBegins
  BY <1>16 DEF CloseBegins, CloseUnchanged
<1>17. CASE CloseComp
  BY <1>17 DEF CloseComp, CompositorClosed, CloseUnchanged
<1>18. CASE CloseRoom
  BY <1>18 DEF CloseRoom, AllEnded, CloseUnchanged
<1>19. CASE UNCHANGED vars
  BY <1>19 DEF vars
<1> QED
  BY <1>1, <1>2, <1>3, <1>4, <1>5, <1>6, <1>7, <1>8, <1>9, <1>10, <1>11, <1>12, <1>13, <1>14,
     <1>15, <1>16, <1>17, <1>18, <1>19 DEF Next, Pump, Close

\* room.go, room_video.go: whatever the callbacks, pumps and the closer do, the
\* compositor sees one NewCompositor, then inputs added and removed, then one
\* Close; so what Compositor promises holds in every room, whose layout is
\* legal at any time.
THEOREM RoomImplementsCompositor ==
    ASSUME ~LateVideo, ~EarlyClose
    PROVE  Spec => CompSpec
<1>1. Init => CompInit
  BY DEF Init
<1>2. RoomInv /\ [Next]_vars => [CompNext]_compVars
  <2>1. RoomInv /\ EnableVideo => pipeline = "none"
    BY DEF EnableVideo, RoomInv, ClosingInv
  <2>2. RoomInv /\ CloseComp => pipeline = "open"
    BY DEF CloseComp, RoomInv, ClosingInv
  <2> QED
    BY <2>1, <2>2, CompOpStep DEF RoomInv, CompOp, CompNext
<1> QED
  BY <1>1, <1>2, RoomInvariant, PTL DEF Spec, CompSpec

\* gst.go, relayoutLocked, in the room: no participant's tile covers another's
\* or leaves the canvas, in whatever order the tracks come and go, and whenever
\* video is enabled and the room is closed.
THEOREM RoomTilesLegal == Spec => []TilesLegal
<1>1. Init => TrackInv /\ LaidOut
  BY RoomInit, NoTiles DEF RoomInv, Init, CompInit, LaidOut
<1>2. TrackInv /\ [Next]_vars => TrackInv'
  BY TrackStep
<1>3. TrackInv /\ LaidOut /\ [Next]_vars => LaidOut'
  BY CompOpStep, LaidOutStep DEF CompOp
<1>4. LaidOut => TilesLegal
  BY DEF LaidOut, Legal, TilesLegal
<1> QED
  BY <1>1, <1>2, <1>3, <1>4, PTL DEF Spec
=============================================================================
