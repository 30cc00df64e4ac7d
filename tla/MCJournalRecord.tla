--------------------------- MODULE MCJournalRecord ---------------------------
(***************************************************************************)
(* State roots of each kind the encoding tells apart: plain, a percent     *)
(* sign that could be taken for an escape, the separator of fields, and a  *)
(* letter outside ASCII alone and after another.                           *)
(***************************************************************************)
EXTENDS JournalRecord

MCRoots == {<<67>>, <<37, 52, 49>>, <<124>>, <<195, 169>>, <<67, 195, 169>>}

=============================================================================
