--------------------------- MODULE MCPropertyValues ---------------------------
(***************************************************************************)
(* An instance of PropertyValues: a property with objects under two        *)
(* resource ids, one with an array, and the device's own ones.             *)
(***************************************************************************)
EXTENDS PropertyValues

\* {"a":{"b":0,"c":n}} and the updates {"/a/b":1,"/a/x":1}
Object(n) == [tree |-> {<<<<"a", "b">>, "0">>, <<<<"a", "c">>, n>>}]
Updates == [updates |-> <<<< <<"a", "b">>, {<< <<>>, "1">>} >>,
                          << <<"a", "x">>, {<< <<>>, "1">>} >>>>]
Array == [items |-> <<"i", "j", "k">>]
Text == [text |-> "t"]

AGet(id, resId, enc, page) == [id |-> id, resId |-> resId, enc |-> enc, page |-> page]
ASet(id, resId, enc, body, partial) ==
    [id |-> id, resId |-> resId, enc |-> enc, body |-> body, partial |-> partial]

SomeGets == {AGet("P", "", "", <<>>), AGet("P", "x", "Mcoded7", <<>>),
             AGet("L", "", "ASCII", <<1, 1>>), AGet("ResourceList", "", "", <<>>),
             AGet("ResourceList", "", "", <<1, 2>>)}
SomeSets == {ASet("P", "", "zlib+Mcoded7", Object("1"), FALSE),
             ASet("P", "x", "", Text, FALSE),
             ASet("P", "x", "Mcoded7", Updates, TRUE),
             ASet("L", "", "Mcoded7", Array, FALSE),
             ASet("DeviceInfo", "", "", Object("4"), FALSE)}
SomeWrites == {[id |-> "P", resId |-> "x", body |-> Object("2")],
               [id |-> "L", resId |-> "", body |-> [items |-> <<"k">>]]}
Subscribers == <<[resource |-> "P", encoding |-> "Mcoded7"],
                 [resource |-> "L", encoding |-> "ASCII"],
                 [resource |-> "P", encoding |-> "ASCII"],
                 [resource |-> "P", encoding |-> "ASCII"]>>
Infos == {Object("3"), Empty}
TheSystem == <<"DeviceInfo">>
=============================================================================
