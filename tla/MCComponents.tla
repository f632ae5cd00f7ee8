---------------------------- MODULE MCComponents ----------------------------
(* The components that share no state with the others, in one instance for   *)
(* TLC: a behaviour is one of the rowid allocator, of exclusive transactions, *)
(* of the sync engine's replace-base guard, of ids drawn from a sequence and  *)
(* pushed, of the reader slots that processes share, or of a connection's     *)
(* page cache.                                                                *)
(* The page cache is seen twice: with the header page and one other page that *)
(* the writer changes, and with two pages that are spilled together.          *)
EXTENDS RowidAllocator, ExclusiveTx, ReplaceBase, PageSpill, SequenceWatermark,
        ReaderSlots

CONSTANTS
  c1, c2, t1, t2, t3, s1, s2, p1, p2, r1, r2, r3,
  Parts     \* the parts of this run

VARIABLE focus

Connections  == {c1, c2}
RowsAtOpen   == {-1, 1}
RowsNamed    == {2}
Transactions == {t1, t2}
Drawers      == {t1, t2, t3}
FilesAtOpen  == {1, 3, 4}
FourPages    == 1..4
OneReader    == {s2}
Processes    == {p1, p2}
Openers      == {r1, r2, r3}
HomeOf(c)    == IF c = r3 THEN p2 ELSE p1

(* Three pages are in use; a transaction changes the first, then the second. *)
FirstPage == IF focus = "header page" THEN 1 ELSE 2

CacheNext ==
  /\ SpillNext
  /\ ToSet(ring') \cup {wants'[s] : s \in Stmt} \subseteq FirstPage..(FirstPage + 2) \cup {NoPage}
  /\ dirty_pages' \in {{}, {FirstPage}, {FirstPage, FirstPage + 1}}

(* Transactions are alike until they begin: they begin in this order.  When *)
(* there are three, the first is exclusive and the others are concurrent.    *)
DrawNext ==
  /\ SequenceNext
  /\ t3 \in STx => /\ life'[t1] # "concurrent"
                   /\ \A t \in {t2, t3} : life'[t] \notin {"acquiring", "exclusive"}
  /\ \A i \in 1..2 : LET t == <<t1, t2, t3>>[i + 1] IN
       t \in STx /\ life'[t] # "unborn" => life'[<<t1, t2, t3>>[i]] # "unborn"

(* One connection in each of two processes, with a frame of its own, or two in *)
(* one process                                                                *)
TableNext ==
  /\ ReadersNext
  /\ IF focus = "processes"
     THEN rat'[r2] = "idle" /\ want_frame'[r1] # 0 /\ want_frame'[r3] # 1
     ELSE rat'[r3] = "idle"

(* After a rollback with a spill in flight, until that write has landed *)
UntilStrayLands == strayed => strays # {}

MCInit ==
  /\ RowidInit /\ ExclusiveInit /\ ReplaceInit /\ SpillInit /\ SequenceInit
  /\ ReadersInit
  /\ focus \in Parts
  /\ focus # "rowids" => stored = {}

MCNext ==
  \/ /\ focus = "rowids"
     /\ RowidNext
     /\ UNCHANGED <<focus, xVars, rbVars, spillVars, seqVars, readerVars>>
  \/ /\ focus = "exclusive"
     /\ ExclusiveNext
     /\ UNCHANGED <<focus, rowidVars, rbVars, spillVars, seqVars, readerVars>>
  \/ /\ focus = "replace"
     /\ ReplaceNext
     /\ UNCHANGED <<focus, rowidVars, xVars, spillVars, seqVars, readerVars>>
  \/ /\ focus = "sequence"
     /\ DrawNext
     /\ UNCHANGED <<focus, rowidVars, xVars, rbVars, spillVars, readerVars>>
  \/ /\ focus \in {"header page", "spill"}
     /\ CacheNext
     /\ UNCHANGED <<focus, rowidVars, xVars, rbVars, seqVars, readerVars>>
  \/ /\ focus \in {"processes", "siblings"}
     /\ TableNext
     /\ UNCHANGED <<focus, rowidVars, xVars, rbVars, spillVars, seqVars>>

MCSpec ==
  MCInit /\ [][MCNext]_<<rowidVars, xVars, rbVars, spillVars, seqVars, readerVars, focus>>
=============================================================================
