----------------------------- MODULE ConfigFile -----------------------------
(***************************************************************************)
(* ConfigFile (hfpd/configfile.cpp): the configuration in memory, which is *)
(* loaded from the files of several layers, changed, and written back.     *)
(*                                                                         *)
(* A configuration is the sequence of its sections; a section has a name   *)
(* and one tuple for each of its keys.  The layer of a tuple is the file   *)
(* it comes from, and a change is a layer of its own, above all files; the *)
(* lowest layer is that of the first file whose value the tuple has        *)
(* replaced.  A file is the sequence of the sections written in it.        *)
(* Values are strings; how numbers and paths are spelled is left out.      *)
(***************************************************************************)
EXTENDS Naturals, Sequences, SequencesExt, Functions

\* The layers of the code: 1 for the system's file, the user's, and INT_MAX.
UserLayer == 2
Newest == 3

NoValue == ""

NoTuples == [k \in {} |-> NoValue]

FindSection(c, name) == SelectInSeq(c, LAMBDA s : s.name = name)

\* CreateSection appends; Get and Set create the section they do not find.
WithSection(c, name) ==
    IF FindSection(c, name) # 0 THEN c
    ELSE Append(c, [name |-> name, tuples |-> NoTuples])

Without(f, k) == Restrict(f, DOMAIN f \ {k})
With(f, k, v) == [x \in DOMAIN f \cup {k} |-> IF x = k THEN v ELSE f[x]]

\* The value of a key in the first section of the name; NoValue counts as none.
Get(c, name, k, default) ==
    LET i == FindSection(c, name) IN
    IF i = 0 \/ k \notin DOMAIN c[i].tuples THEN default
    ELSE IF c[i].tuples[k].value = NoValue THEN default ELSE c[i].tuples[k].value

\* Set, and Delete, which sets no value: a tuple that is in a file has to be
\* kept to hide it.
Changed(c, name, k, value, keeps) ==
    LET r == WithSection(c, name)
        i == FindSection(r, name)
        lowest == IF k \in DOMAIN r[i].tuples THEN r[i].tuples[k].lowest ELSE Newest
        tuple == [value |-> value, layer |-> Newest, lowest |-> lowest]
    IN [r EXCEPT ![i].tuples = IF keeps \/ lowest # Newest THEN With(@, k, tuple)
                                                           ELSE Without(@, k)]

Set(c, name, k, value) == Changed(c, name, k, value, TRUE)
Delete(c, name, k) == Changed(c, name, k, NoValue, FALSE)

\* Load: each header in a file begins a section of its own, so a tuple never
\* meets one of another layer and ParseLine's test of layers has no effect.
Load(c, file, layer) ==
    c \o [i \in DOMAIN file |->
            [name |-> file[i].name,
             tuples |-> [k \in DOMAIN file[i].lines |->
                [value |-> file[i].lines[k], layer |-> layer, lowest |-> layer]]]]

\* Mutant: Save writes what has changed since the files were read.
WritesChanges(tuple, layer) ==
    tuple.layer > layer /\ (tuple.value # NoValue \/ tuple.lowest < layer)

\* What Save writes, of a tuple and of a configuration.  It then gives the
\* tuples the layer of the file, which nothing but another Load could tell
\* from the newest.
Writes(tuple, layer) ==
    tuple.layer >= layer /\ (tuple.value # NoValue \/ tuple.lowest < layer)

\* A section without lines has no header either.
WithLines(file, s) == IF DOMAIN s.lines = {} THEN file ELSE Append(file, s)

Written(c, layer) ==
    LET Lines(s) == {k \in DOMAIN s.tuples : Writes(s.tuples[k], layer)}
        Line(s) == [name |-> s.name, lines |-> [k \in Lines(s) |-> s.tuples[k].value]]
    IN FoldLeft(WithLines, <<>>, [i \in DOMAIN c |-> Line(c[i])])
=============================================================================
