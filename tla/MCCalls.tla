------------------------------- MODULE MCCalls --------------------------------
(***************************************************************************)
(* A small file system, small numbers and the tables of letters for Calls. *)
(***************************************************************************)
EXTENDS Calls, LetterTables

CONSTANTS top, sub, sock, link, away, kept, note, in

MCNodes  == {top, sub, sock, link, away, kept, note, in}
MCParent == (top :> NULL) @@ (sub :> top) @@ (sock :> sub) @@ (link :> top)
              @@ (away :> NULL) @@ (kept :> away) @@ (note :> NULL) @@ (in :> note)
MCPath[n \in MCNodes] == IF MCParent[n] = NULL THEN <<n>> ELSE Append(MCPath[MCParent[n]], n)
MCTarget == link :> away
MCInstants == 0..((INT_MAX + 2) * MILLI)
MCYears  == {1970, 1972, 1999, 2000, 2001, 2038, 2100, 2104, 2400}
=============================================================================
