---------------------------- MODULE MCSourceArchive ----------------------------
(* Instances of SourceArchive for TLC: every archive of up to two members of
   every kind, of three of the kinds that differ in what they are charged to,
   and of four of the shortest, cut off at every byte, torn or not; and every kind of container. *)
EXTENDS SourceArchive, TLC

Member(name, type, headers, size) ==
    [name |-> name, type |-> type, headers |-> headers, size |-> size]

Charged ==
    {Member("recipe", "regular", 1, 1), Member("a", "regular", 1, 2),
     Member("file", "regular", 1, 3), Member("file", "contiguous", 2, 0),
     Member("file", "link", 1, 5), Member("file", "unknown", 1, 1),
     Member("A", "regular", 1, 0), Member("file", "damaged", 1, 0)}

Short == {Member("recipe", "regular", 1, 0), Member("file", "link", 1, 5)}

Members == Charged \cup
    {Member("recipe", "regular", 1, 3), Member("recipe", "link", 1, 0),
     Member("recipe", "contiguous", 1, 0), Member("CON", "regular", 1, 1),
     Member("..", "regular", 1, 1), Member("file", "sparse", 1, 1),
     Member("file", "regular", 1, 18), Member("file", "damaged", 2, 0),
     Member("file", "headless", 2, 0)}

MCBundleName == {"a", "A", "CON"}
MCKey == [recipe |-> "recipe", a |-> "a", A |-> "a", CON |-> "con"]

Archives == {<<>>} \cup {<<m>> : m \in Members} \cup (Members \X Members)
                \cup (Charged \X Charged \X Charged) \cup (Short \X Short \X Short \X Short)

Component(matches, stored) == [matches |-> matches, stored |-> stored]
Zip(members, size, available) ==
    [members |-> members, read |-> [size |-> size, available |-> available]]

Info == Component(TRUE, TRUE)
Pkg  == Component(FALSE, FALSE)
Containers ==
    {Zip(members, 1, 4) : members \in
        {<<>>, <<Pkg>>, <<Pkg, Info>>, <<Info, Info>>, <<Component(TRUE, FALSE)>>,
         <<Info, Component(TRUE, FALSE)>>, <<Info, Pkg, Pkg, Pkg>>}}
    \cup {Zip(<<Info, Pkg, Pkg>>, size, available) :
            size \in {-1, 2, 3}, available \in 2..3}

Stream(container, entries, length, torn) ==
    [container |-> container, entries |-> entries, length |-> length, torn |-> torn]
Contents == ({None} \X Archives) \cup (Containers \X {<<Member("recipe", "regular", 1, 1)>>})
MCPackage ==
    {Stream(content[1], content[2], length, torn) :
        content \in Contents, length \in 0..19, torn \in BOOLEAN}
=============================================================================
