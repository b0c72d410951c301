----------------------------- MODULE Selection -----------------------------
(***************************************************************************)
(* From the command line to the tests to run: cldm_argp_parse, and the     *)
(* collection that a runner then starts with.                              *)
(***************************************************************************)
EXTENDS Collect

\* The executables that cldm_map_elf has accepted before.
ASSUME MappedAssumption == \A img \in Images : BaseAddr(img) # 0

vars == <<mainVars, argVars, elfVars, collectVars>>

Init ==
    /\ at = "argp"
    /\ failures = 0
    /\ ArgInit
    /\ ElfInit
    /\ CollectInit

\* main goes on to a runner, unless it was asked for help or its version.
StartRunner ==
    /\ at = "parsed"
    /\ Goto(IF ctx.args.help \/ ctx.args.version THEN "informed" ELSE "collect")
    /\ UNCHANGED <<failures, argVars, elfVars, collectVars>>

Ended ==
    /\ at \in {"refused", "informed", "uncollected", "execute"}
    /\ UNCHANGED vars

Next ==
    \/ ArgNext /\ UNCHANGED <<elfVars, collectVars>>
    \/ StartRunner
    \/ CollectNext /\ UNCHANGED <<argVars, elfVars>>
    \/ Ended

Spec == Init /\ [][Next]_vars

-----------------------------------------------------------------------------
(* Correctness.                                                            *)

\* If no call fails, the tests to run are all of them, or exactly those whose
\* file or name is on the command line: a mark left in an identifier never
\* makes the search miss it.
SelectionExact ==
    at = "execute" /\ failures = 0 => tree = Wanted

Unmappable == \E name \in image.tests : SymLookup(image, name) = 0

\* The check at the end sees an identifier to its end, unless a byte in it is
\* negative as a char.
Checked(id) == ~StopsWithin(id)

\* The collection fails if an identifier of plain characters names no file and
\* no test, or if a record cannot be found, and for no other reason.  One with
\* other characters, as in a name in UTF-8, passes even if it names nothing,
\* and nothing is said.
IdentifiersJudged ==
    /\ at = "uncollected" =>
          Unmappable \/ \E id \in Asked : Checked(id) /\ NamedBy(id) = {}
    /\ at = "execute" /\ failures = 0 =>
          \A id \in Asked : Checked(id) => NamedBy(id) # {}

\* It does so as long as no identifier names two tests and no test is named by
\* two identifiers: each mark then stays within its own string, whatever
\* duplicates, switches and values stand in between.
JudgedIfDisjoint ==
    /\ \A id \in Asked : Cardinality(NamedBy(id)) <= 1
    /\ \A x, y \in Asked : x # y => NamedBy(x) \cap NamedBy(y) = {}
    => IdentifiersJudged
=============================================================================
