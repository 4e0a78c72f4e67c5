------------------------------ MODULE Library -------------------------------
(***************************************************************************)
(* The library functions whose result is a function of their arguments,    *)
(* called with every argument of a small set, and table.sort, whose order  *)
(* function is called back.  A call is a record; its fields are those of   *)
(* the operator that stands for the library function.  The calls with      *)
(* words are those of PureCalls.                                           *)
(***************************************************************************)
EXTENDS PureCalls, Patterns, Pack, Sort

CONSTANTS
    PatternCalls, PackCalls, SortCalls

ASSUME PackAssumption == ByteBits \in Nat \ {0} /\ W = ByteBits * SzInt /\ MaxIntSize \in Nat

libraryVars == <<vars, sortVars>>

LibraryInit ==
    \/ Init /\ SortInit(<<>>, TRUE)
    \/ /\ done = FALSE
       /\ \/ call \in PatternCalls
          \/ call \in PackCalls
       /\ SortInit(<<>>, TRUE)
    \/ /\ done = FALSE
       /\ call \in SortCalls
       /\ SortInit(call.items, call.honest)

Returning == call.fn # "sort" /\ Return /\ UNCHANGED sortVars

Sorting == ~done /\ call.fn = "sort" /\ SortStep /\ UNCHANGED vars

LibraryNext == Returning \/ Sorting

\* A library function runs to its end unless a call back does not return.
LibrarySpec == LibraryInit /\ [][LibraryNext]_libraryVars /\ WF_libraryVars(LibraryNext)

-----------------------------------------------------------------------------
(***************************************************************************)
(* find, match, gmatch and gsub answer the leftmost match at each point,   *)
(* the preferred one there with its own captures: nothing that a failed    *)
(* attempt wrote into the capture list is seen later, and an empty match   *)
(* never follows the previous match at the same place.                     *)
(***************************************************************************)
Start(c) == IF c.pos > 0 THEN c.pos - 1 ELSE Len(c.src) + c.pos
Clipped(start) == IF start < 0 THEN 0 ELSE start

PatternsMatch ==
    done =>
        /\ call.fn \in {"find", "match"} =>
               StrFindAux(call.src, SpellAll(call.items), call.pos, call.fn = "find")
                   = Leftmost(call.src, call.items, Clipped(Start(call)))
        /\ call.fn = "gmatch" /\ Start(call) >= 0 =>
               StrGmatch(call.src, SpellAll(call.items), call.pos)
                   = Successive(call.src, call.items, Start(call), -1)
        /\ call.fn = "gsub" =>
               StrGsub(call.src, SpellAll(call.items), call.repl, call.max)
                   = Substituted(call.src, call.items, call.max,
                                 LAMBDA m : Replacement(call.src, m, call.repl))

(***************************************************************************)
(* What pack writes, unpack reads back, with the padding that alignment    *)
(* inserts counted alike by pack, unpack and packsize.                     *)
(***************************************************************************)
PackRoundTrips == done /\ call.fn = "pack" => RoundTrip(call.fmt, call.args)
=============================================================================
