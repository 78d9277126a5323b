---------------------------- MODULE TopicTrieMC ----------------------------
(***************************************************************************)
(* Instances of TopicTrie for TLC: small sets of patterns and topics that  *)
(* share branches, end in the middle of each other, and use each wildcard  *)
(* first, last and before a name.                                          *)
(***************************************************************************)
EXTENDS TopicTrie

CONSTANTS a, b

(* Every pair of these is a prefix of, a sibling of, or overlaps another;  *)
(* the last one has more segments than MaxSegments.                        *)
PlainPatterns == {<< >>, <<a>>, <<a, b>>, <<Plus, b>>, <<a, Star>>,
                  <<Star, b>>, <<a, b, a, b>>}

AllTopics == {<< >>, <<a>>, <<b>>, <<a, b>>, <<Plus, b>>, <<a, a, b>>}

(* Branches that a failing allocation can leave half made.                 *)
DeepPatterns == {<<a>>, <<a, b>>, <<a, Plus>>, <<a, b, b>>}

FewTopics == {<<a>>, <<a, b>>}

(* Stars next to each other.                                               *)
StarPatterns == {<<Star>>, <<a, Star, Star>>, <<Star, Star, b>>, <<Star, Plus, Star>>}
=============================================================================
