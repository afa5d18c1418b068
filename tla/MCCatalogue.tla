---------------------------- MODULE MCCatalogue ----------------------------
(* Small instances of ShopWindow: operations, numbers, words and shelves.   *)
EXTENDS ShopWindow, TLC

\* One group of operations beside the synchronisation at a time.
EachAlone == {{"create"}, {"update"}, {"remove"}, {"import"}, {"orders"}}
NoUses == {{}}

\* The boundaries of every reader of sizes.
Boundaries == {50, 100, 611, 900, 1000, 1400, 1500, 1600, 2000, 3900, 4000, 4900,
               5000, 9900, 10000, 49900, 50000, 99900, 100000, 150000, 150100, 501000}
NoNumbers == {}

Meanings == (<<"b", "b">> :> "colour") @@ (<<"b", "a", "b">> :> "shape")

Indexed(name, code, brand, likedBy, on, isRoll) ==
  [name |-> name, code |-> code, brand |-> brand, likes |-> likedBy, roll |-> isRoll,
   tags |-> {"colour"}, pieces |-> {[w |-> 200, l |-> 300, on |-> on]}]
IndexedCarpets ==
  {Indexed(<<"a", "a", "a">>, <<"b", "a">>, <<"b", "b", "a">>, 0, TRUE, FALSE),
   Indexed(<<"b", "b", "b">>, <<"b", "a">>, <<"b", "b", "b">>, 1, FALSE, TRUE),
   Indexed(<<"a", "a", "b">>, <<"a", "b">>, <<"b", "b", "a">>, 1, TRUE, TRUE)}
UpToTwo == UNION {[1 .. n -> IndexedCarpets] : n \in 1 .. 2}
NoIndex == {}

Piece(kind, k, w, l, p) == [kind |-> kind, carpet |-> k, w |-> w, l |-> l, price |-> p]
\* 201 x 420 is a hair beyond the limit, and within it once it is rounded.
OnTheShelves ==
  {Piece("READY", 1, 200, 300, 1), Piece("READY", 1, 300, 200, 2),
   Piece("READY", 2, 300, 200, 1), Piece("READY", 2, 201, 420, 1),
   Piece("READY", 1, 200, 420, 2), Piece("METRAJ", 3, 200, 300, 1),
   Piece("METRAJ", 3, 200, 400, 1), Piece("METRAJ", 4, 200, 500, 2),
   Piece("METRAJ", 4, 300, 500, 1), Piece("OVAL", 5, 210, 300, 1),
   Piece("OVAL", 6, 200, 290, 1), Piece("OVAL", 7, 90, 90, 1)}
UpToThree == UNION {[1 .. n -> OnTheShelves] : n \in 1 .. 3}
NoShelves == {}
AskedFor == {[w |-> 200, l |-> 300], [w |-> 100, l |-> 100], [w |-> 200, l |-> 1000]}
============================================================================
