---------------------------- MODULE Publication ----------------------------
(***************************************************************************)
(* What the refresh service promises its readers, without its files: data  *)
(* generations are accepted one after another, each at most once, and what *)
(* is served moves to a generation in the order of acceptance, before the  *)
(* next one is accepted.  So no accepted generation is skipped, served out *)
(* of order or served again after its successor.                           *)
(***************************************************************************)
CONSTANTS Generations, Base, None

VARIABLES
  accepted,   \* the newest accepted generation
  served,     \* the generation readers are served, or None before the first
  history     \* the generations accepted so far

publicationVars == <<accepted, served, history>>

PublicationInit ==
  /\ accepted = Base
  /\ served = None
  /\ history = {}

\* A generation is accepted once, when its predecessor has reached the readers.
\* The first one may be accepted before anything is served.
Accept(g) ==
  /\ g \notin history \cup {Base}
  /\ served = accepted \/ (served = None /\ accepted = Base)
  /\ accepted' = g
  /\ history' = history \cup {g}
  /\ UNCHANGED served

\* Only the newest accepted generation starts to be served.
Serve ==
  /\ served # accepted
  /\ served' = accepted
  /\ UNCHANGED <<accepted, history>>

PublicationNext == Serve \/ \E g \in Generations : Accept(g)

PublicationSpec == PublicationInit /\ [][PublicationNext]_publicationVars
=============================================================================
