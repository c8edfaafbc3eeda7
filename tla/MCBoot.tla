------------------------------- MODULE MCBoot --------------------------------
(* Disks of up to MaxParts entries for TLC.  An entry begins at the sector *)
(* that its position says and is 1 to MaxSize sectors long, or is unused,  *)
(* or its bounds are odd: it ends before it begins, by one or more, or     *)
(* wraps around the end of the sector numbers.                             *)
EXTENDS Boot

CONSTANTS MaxParts, MaxSize

Kinds == {<<"zsl", "id2">>, <<"dtb", "id2">>, <<"fw", "id2">>, <<"dtb", "id1">>}
Odd   == {<<"zsl", "id2">>}

(* The kind of an entry, where it begins and how far behind that it ends.  *)
Shapes ==
  (Kinds \X {"place"} \X (0 .. MaxSize - 1)) \union (Odd \X {"place"} \X {-1, -4})
    \union (Odd \X {"top"} \X {1 - Lbas}) \union {<<<<Unused, Unused>>, "zero", 0>>}

Placed(s, q) ==
  LET first == CASE s[2] = "place" -> 10 * (q + 1) [] s[2] = "top" -> Lbas - 1 [] s[2] = "zero" -> 0
  IN  [type |-> s[1][1], id |-> s[1][2], begin |-> first, end |-> first + s[3]]

PartLists(n) == {[q \in 0 .. n - 1 |-> Placed(f[q], q)] : f \in [0 .. n - 1 -> Shapes]}

MCDisks ==
  {[signed |-> FALSE, count |-> 0, parts |-> <<>>]} \union
  UNION {{[signed |-> TRUE, count |-> n, parts |-> f] : f \in PartLists(n)} :
         n \in 0 .. MaxParts}

JobMap(rom_, dtb, fw) ==
  [j \in Jobs |-> IF j = "rom" THEN rom_ ELSE IF j = "dtb" THEN dtb ELSE fw]

MCMaxLbas == JobMap(2, 1, 3)
ByType    == JobMap("zsl", "dtb", "fw")
ById      == JobMap("id1", NoGuid, NoGuid)
==============================================================================
