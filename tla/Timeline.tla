------------------------------ MODULE Timeline ------------------------------
(***************************************************************************)
(* timelineOrder of internal/store/timeline.go, the order of the rows of   *)
(* every range read: by time, then by the number the source gave the       *)
(* event, those without one last, then by ingest sequence.                 *)
(***************************************************************************)
EXTENDS Naturals

CONSTANT None \* SQL NULL

(* The order of two events, as far as the source decides it.               *)
Sooner(e, f) ==
  \/ e.at < f.at
  \/ e.at = f.at /\ e.source # None /\ (f.source = None \/ e.source < f.source)

(* Event e of ingest sequence m comes before event f of ingest sequence n. *)
Precedes(e, m, f, n) == Sooner(e, f) \/ (~Sooner(f, e) /\ m < n)
=============================================================================
