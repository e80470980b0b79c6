------------------------- MODULE MCFilteredListModel -------------------------
(* Two detached threads and lists of up to three items of two kinds.          *)
EXTENDS FilteredListModel

CONSTANTS a, b, c, plain, marked

MCItems == {a, b, c}
MCKinds == {plain, marked}
MCFilters == {{marked}, MCKinds}
MCSources == {<<a, b>>}
=============================================================================
