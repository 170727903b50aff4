------------------------------- MODULE MCMachine -------------------------------
(***************************************************************************)
(* Machine, for TLC.  A behaviour that plays one part starts the others in *)
(* one of their initial states; Codex has no file yet, Cursor has both.    *)
(***************************************************************************)
EXTENDS Machine, TLC

CONSTANTS p1, p2, c1, c2

MCWithin == {<<"yore", "/opt/yore">>}
MCSessionOf == "r1" :> "s"
MCPromptOf == "r1" :> "q1"
MCMaxOps == ("local" :> 2) @@ ("remote" :> 2)

MCInit ==
  /\ Init
  /\ IF part = "config"
       THEN /\ agent \in {"claude", "cursor"} => file["hooks"] = file["mcp"]
            /\ agent = "codex" => file["hooks"] = Config!Absent
            /\ agent = "cursor" => file["hooks"] # Config!Absent
       ELSE agent = "claude" /\ file = [f \in Config!Files |-> Config!Absent]
  /\ part # "backup" => who = "daemon"

MCSpec == MCInit /\ [][Next]_vars

\* Only one part moves, so runs and clients may be swapped together.
Swapped == [x \in {p1, p2, c1, c2} |->
              CASE x = p1 -> p2 [] x = p2 -> p1 [] x = c1 -> c2 [] x = c2 -> c1]
Symmetry == {q \in Permutations({p1, p2, c1, c2}) : q = Swapped \/ \A x \in DOMAIN q : q[x] = x}
================================================================================
