----------------------------- MODULE MCIndexUtil ------------------------------
(***************************************************************************)
(* IndexUtil for TLC: every list of at most MAX_ATTRIBUTES attribute names *)
(* of at most MaxLength characters and one longer list, with and without a *)
(* name, for each type of index.                                           *)
(***************************************************************************)
EXTENDS IndexUtil

CONSTANTS
    MaxLength       \* the longest attribute name

\* The characters the code tells apart: a blank, a dot, "this" and another word
Characters == {" ", ".", "this", "a"}

MCDefaultBitmapIndexOptions ==
    [uniqueKey |-> <<"__key">>, uniqueKeyTransformation |-> "OBJECT"]

\* Every short name, and the longer ones that put a blank, a qualifier and a
\* dot around one attribute
AttributeNames ==
    BoundedSeq(Characters, MaxLength)
        \cup {<<" ", "this", ".", "a">>, <<"this", ".", "a", " ">>,
              <<"this", ".", "a", ".">>, <<"this", ".", " ", "a">>,
              <<"this", ".", "this", ".", "a">>}

\* One attribute more than the code allows, to meet both sides of the limit
AttributeLists == BoundedSeq(AttributeNames, MAX_ATTRIBUTES)
                      \cup {<<<<"a">>, <<"this">>, <<"a", ".", "a">>>>}

IndexNames == {UNDEFINED, <<" ">>, <<"a">>}

UniqueKeys == {UNDEFINED, <<>>, <<"a">>, <<"a", ".">>,
               <<"this", ".", "a">>, <<" ", "this", ".", "a">>}

BitmapIndexOptions ==
    {UNDEFINED} \cup [uniqueKey : UniqueKeys, uniqueKeyTransformation : {UNDEFINED, "LONG"}]

\* The options of a bitmap index are read for a bitmap index only
MCConfigs ==
    [name : IndexNames, type : {"SORTED", "HASH"}, attributes : AttributeLists,
     bitmapIndexOptions : {UNDEFINED}]
    \cup
    [name : IndexNames, type : {"BITMAP"}, bitmapIndexOptions : BitmapIndexOptions,
     attributes : {names \in AttributeLists : Len(names) <= 1}
                      \cup {<<<<"a">>, <<"this">>>>}]

=============================================================================
