----------------------------- MODULE ByteRange -----------------------------
(***************************************************************************)
(* parse_range_header: which bytes of a file an HTTP Range header asks for.*)
(* A header is abstracted to its form and its numbers:                     *)
(*   whole    no header, another unit, several ranges, or not a number     *)
(*   span     bytes=a-b                                                    *)
(*   from     bytes=a-                                                     *)
(*   open     bytes=-                                                      *)
(*   suffix   bytes=-a                                                     *)
(***************************************************************************)
EXTENDS Integers

Header == [form : {"whole", "span", "from", "open", "suffix"}, a : Nat, b : Nat]

Smaller(m, n) == IF m < n THEN m ELSE n
Larger(m, n) == IF m > n THEN m ELSE n

\* The answer None, for 416 Range Not Satisfiable.
NoRange == [first |-> 0, last |-> -1]

Range(first, last) == [first |-> first, last |-> last]

\* Mutant of ParseRange: a suffix longer than the file is not cut.
ParseLongSuffix(h, size) ==
    IF h.form = "suffix" THEN Range(size - h.a, size - 1)
    ELSE Range(0, Larger(0, size - 1))

\* The pair (start, end), for a file of size bytes.
ParseRange(h, size) ==
    LET start == IF h.form \in {"span", "from"} THEN h.a ELSE 0
        end == IF h.form = "span" THEN h.b ELSE size - 1
    IN  CASE h.form = "whole" -> Range(0, Larger(0, size - 1))
          [] h.form = "suffix" -> IF h.a = 0 \/ size = 0 THEN NoRange
                                  ELSE Range(Larger(0, size - h.a), size - 1)
          [] OTHER -> IF start >= size \/ start > end THEN NoRange
                      ELSE Range(start, Smaller(end, size - 1))

\* The definition of RFC 7233, which the code names: the positions of the
\* file the header asks for.  None are what its section 2.1 calls invalid, a
\* span that ends before it begins, as well as what it calls unsatisfiable;
\* section 3.1 has the server answer 416 to both.  What is no range by its
\* grammar, "bytes=-" too, asks for the file.
Requested(h, size) ==
    LET file == 0 .. size - 1
    IN  CASE h.form = "span" -> {i \in file : h.a <= i /\ i <= h.b}
          [] h.form = "from" -> {i \in file : h.a <= i}
          [] h.form = "suffix" -> {i \in file : size - h.a <= i}
          [] OTHER -> file
=============================================================================
