----------------------------- MODULE Compositor -----------------------------
(***************************************************************************)
(* The grid compositor (pkg/media/video/gst.go): the tiles of the room's   *)
(* video tracks and where they are on the canvas.  Every operation runs    *)
(* under the compositor's mutex and is one action; Room composes them with *)
(* the goroutines that call them.                                          *)
(*                                                                         *)
(* GStreamer itself (decoding, scaling, encoding) is external: of an input *)
(* branch only its compositor pad is kept, the rectangle that layoutGrid   *)
(* sets.  IDs are numbers, so that they can be sorted.                     *)
(***************************************************************************)
EXTENDS Integers, FiniteSets

CONSTANTS
    Cameras, Screens,  \* the IDs of camera and of screen share tracks
    Width, Height      \* cfg.Width, cfg.Height

ASSUME TracksAssumption ==
    /\ Cameras \subseteq Nat /\ Screens \subseteq Nat
    /\ IsFiniteSet(Cameras) /\ IsFiniteSet(Screens)
    /\ Cameras \cap Screens = {}

ASSUME CanvasAssumption == Width \in Nat \ {0} /\ Height \in Nat \ {0}

VARIABLES
    pipeline,  \* "none" before NewCompositor, "open", or "closed"
    pads       \* c.inputs with the rectangle of each compositor pad

compVars == <<pipeline, pads>>

Video == Cameras \cup Screens

-----------------------------------------------------------------------------
(* The layout *)

\* int(math.Ceil(math.Sqrt(float64(n)))): how many squares are below n
Cols(n) == Cardinality({k \in 0..(n - 1) : k * k < n})

\* int(math.Ceil(float64(n) / float64(cols)))
Rows(n) == (n + Cols(n) - 1) \div Cols(n)

\* The position of an ID among the sorted inputs.
Index(id, ids) == Cardinality({j \in ids : j < id})

\* Mutant: rows and columns are taken for each other.
TransposedCell(i, cols, tileW, tileH, xOff) ==
    [x |-> xOff + (i \div cols) * tileW, y |-> (i % cols) * tileH, w |-> tileW, h |-> tileH]

\* The rectangle of the i-th input.
Cell(i, cols, tileW, tileH, xOff) ==
    [x |-> xOff + (i % cols) * tileW, y |-> (i \div cols) * tileH, w |-> tileW, h |-> tileH]

layoutGrid(ids, xOff) ==
    LET n     == Cardinality(ids)
        tileW == Width \div Cols(n)
        tileH == Height \div Rows(n)
    IN  [id \in ids |-> Cell(Index(id, ids), Cols(n), tileW, tileH, xOff)]

\* Cameras fill the canvas, or are parked to its left while a screen is shared.
relayoutLocked(ids) ==
    LET screens == ids \cap Screens
        cameras == ids \ Screens
    IN  [id \in ids |-> IF id \in screens THEN layoutGrid(screens, 0)[id]
                        ELSE layoutGrid(cameras, IF screens = {} THEN 0 ELSE 0 - Width)[id]]

-----------------------------------------------------------------------------
(* The operations *)

CompInit == pipeline = "none" /\ pads = [id \in {} |-> {}]

NewCompositor ==
    /\ pipeline' = "open"
    /\ pads' = [id \in {} |-> {}]

\* A closed compositor and a known ID are errors; so may be GStreamer's part,
\* which leaves c.inputs alone.
AddInputFails(id) == pipeline # "open" \/ id \in DOMAIN pads

AddInput(id) ==
    /\ ~AddInputFails(id)
    /\ pads' = relayoutLocked(DOMAIN pads \cup {id})
    /\ UNCHANGED pipeline

\* in.Close() and RemoveInput: by ID, and nothing for an unknown one.
RemoveInput(id) ==
    /\ pads' = IF id \in DOMAIN pads THEN relayoutLocked(DOMAIN pads \ {id}) ELSE pads
    /\ UNCHANGED pipeline

\* Close tears every input down; there is no layout to recompute.
CloseCompositor ==
    /\ pipeline' = "closed"
    /\ pads' = [id \in {} |-> {}]

CompNext ==
    \/ pipeline = "none" /\ NewCompositor
    \/ \E id \in Video : AddInput(id) \/ RemoveInput(id)
    \/ pipeline = "open" /\ CloseCompositor

CompSpec == CompInit /\ [][CompNext]_compVars

-----------------------------------------------------------------------------
(* Properties *)

OnCanvas(r) == r.x >= 0 /\ r.y >= 0 /\ r.x + r.w <= Width /\ r.y + r.h <= Height

OffCanvas(r) == r.x + r.w <= 0

Disjoint(r, s) ==
    \/ r.x + r.w <= s.x \/ s.x + s.w <= r.x
    \/ r.y + r.h <= s.y \/ s.y + s.h <= r.y

\* relayoutLocked's comment: screen shares fill the canvas and cameras are
\* parked off it; otherwise the cameras fill it.  Whatever was added and
\* removed before, every tile that is to be seen lies within the canvas, none
\* covers another, and no camera is left off the canvas once the last screen
\* share is gone.
TilesLegal ==
    /\ \A id \in DOMAIN pads :
          IF id \in Cameras /\ DOMAIN pads \cap Screens # {} THEN OffCanvas(pads[id])
                                                             ELSE OnCanvas(pads[id])
    /\ \A i, j \in DOMAIN pads : i # j => Disjoint(pads[i], pads[j])
=============================================================================
