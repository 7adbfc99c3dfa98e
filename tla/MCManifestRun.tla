---------------------------- MODULE MCManifestRun ----------------------------
(* Small lakes and manifests for TLC: two parties with a lane each, a second *)
(* lane that lists an invoice of the first, and two invoices: one was due the *)
(* day before the request came, the other is due that day.                    *)
EXTENDS ManifestRun, TLC

CONSTANTS p1, p2, l1, l2, o1, o2

C(id, p, lanes, named, case) ==
  [id |-> id, party |-> p, lanes |-> lanes, named |-> named, case |-> case]

\* A candidate over both lanes that names its invoices and one of the other
\* party; the same without names; duplicate ids; nothing at all.
MCManifests == {
  <<C("a", p1, <<l1, l2>>, {o1, o2}, TRUE), C("b", p2, <<l2>>, {o2}, FALSE)>>,
  <<C("a", p1, <<l1>>, {o1}, FALSE), C("b", p2, <<l2, l1>>, {}, FALSE)>>,
  <<C("a", p1, <<l1>>, {}, FALSE), C("a", p2, <<l2>>, {}, FALSE)>>,
  <<>> }

Plain == [
  party |-> [p \in Parties |-> "ok"],
  lane |-> [l \in Lanes |-> "ok"],
  contact |-> Parties,
  linked |-> {<<l1, o1>>, <<l2, o1>>, <<l2, o2>>},
  laneQuery |-> [r \in Lanes \X Obligations |-> "null"],
  open |-> Obligations,
  due |-> (o1 :> -1 @@ o2 :> 0),
  queried |-> {},
  promised |-> {} ]

\* A lane invoice whose own flag hides the query of its invoice; a party that
\* is gone; one whose row no context accepts.
MCWorlds == {
  Plain,
  [Plain EXCEPT !.laneQuery[<<l2, o1>>] = "false", !.laneQuery[<<l2, o2>>] = "true",
                !.queried = {o1}, !.due[o2] = -1],
  [Plain EXCEPT !.party[p2] = "absent", !.lane[l1] = "noPolicy"],
  [Plain EXCEPT !.party[p1] = "noProvider", !.contact = {p2}] }
=============================================================================
