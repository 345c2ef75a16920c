-------------------------------- MODULE Lists --------------------------------
(* What the lists of the API have in common: a page of a list, the order of *)
(* those that are sorted by their time of creation alone, and the filter    *)
(* for deleted rows, which has three states in one optional parameter.      *)
EXTENDS Integers, FiniteSetsExt, SequencesExt

\* OFFSET and LIMIT.
Page(rows, offset, limit) == SubSeq(rows, offset + 1, Min({offset + limit, Len(rows)}))

\* ORDER BY created_at DESC.  Rows of one time come in any order, which need not
\* be the same for the next page.
NewestFirst(rows) ==
  {seq \in SetToSeqs(rows) : \A i \in 1..Len(seq) - 1 : seq[i].created_at >= seq[i + 1].created_at}

\* _parse_is_active_filter: the values that are selected; any other text is
\* refused, as is no value at all.
parse_is_active_filter(raw) ==
  CASE raw \in {"omitted", "true"} -> {TRUE}
    [] raw = "false"               -> {FALSE}
    [] raw = "null"                -> BOOLEAN
    [] OTHER                       -> {}
=============================================================================
