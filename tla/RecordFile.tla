------------------------------ MODULE RecordFile -----------------------------
(***************************************************************************)
(* The text format plans and journals share (crates/common): one key and   *)
(* its tab-separated fields a line, written with one fs::write that may    *)
(* stop anywhere, and read by a loop that skips the lines it does not      *)
(* know.  Planning has the plan file, JournalRecord the journal.           *)
(***************************************************************************)
EXTENDS Naturals, Sequences, FiniteSets

(* A line is whole, or the one the write stopped in: "short" of fields, with a
   part of its "last" field only, or "broken", that is cut inside an escape or
   a character. *)
Line(key, value) == [key |-> key, value |-> value, state |-> "whole"]

Lines(key, values) == [i \in DOMAIN values |-> Line(key, values[i])]

Cut(lines, k, state) == Append(SubSeq(lines, 1, k - 1), [lines[k] EXCEPT !.state = state])

(* What can be on the disk when the write of these lines ends or is cut; only
   some lines hold what can be cut to something "broken". *)
Written(lines, breakable) ==
  {SubSeq(lines, 1, k) : k \in 0..Len(lines)} \union
  {Cut(lines, k, state) : k \in 1..Len(lines), state \in {"short", "last"}} \union
  {Cut(lines, k, "broken") : k \in breakable}

Has(lines, key, states) ==
  \E i \in DOMAIN lines : lines[i].key = key /\ lines[i].state \in states

(* The items of a sequence at these places, in the order they have there. *)
Nth(places, n) == CHOOSE i \in places : Cardinality({j \in places : j <= i}) = n

Picked(seq, places) == [n \in 1..Cardinality(places) |-> seq[Nth(places, n)]]

(* The lines of a key that have all their fields; the others are skipped. *)
Fields(lines, key) ==
  Picked(lines, {i \in DOMAIN lines : lines[i].key = key /\ lines[i].state # "short"})

Values(lines) == [i \in DOMAIN lines |-> lines[i].value]

=============================================================================
