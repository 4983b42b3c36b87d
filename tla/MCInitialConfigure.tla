------------------------ MODULE MCInitialConfigure ------------------------
(* Description files for InitialConfigure: one file varies at a time.      *)
EXTENDS InitialConfigure

BuildText == <<"(">>
CloseText == <<")">>

Queues == UNION {[1..n -> [queue : {0, 1}, prio : {0, 1},
                           text : {NoText, "t1"}]] : n \in 0..3}
Schedules == UNION {[1..n -> {[queue |-> q, algorithm |-> "dwrr", weight |-> w] :
                                q \in {0, 1}, w \in {1, 2}}
                             \union {[queue |-> q, algorithm |-> "strict",
                                      weight |-> 0] : q \in {0, 1}}] :
                    n \in 0..3}

Names == {[default |-> "default", factory |-> "factory-default"],
          [default |-> "default", factory |-> "default"]}

Port(n, p, s) == [name |-> n, parent |-> p, subports |-> s]

(* Port a may be split into b, c and d; the files need not agree.          *)
PortLists ==
    {<<Port("a", p1, s1), Port("b", p2, s2), Port("c", p3, <<>>)>> :
        p1 \in {NoPort, "b"}, p2 \in {NoPort, "a", "d"}, p3 \in {NoPort, "a"},
        s1 \in {<<>>, <<"b">>, <<"c", "b">>, <<"d", "b", "c">>, <<"b", "c", "d">>},
        s2 \in {<<>>, <<"a">>, <<"c">>}}

(* Lines of /etc/os-release; a text has room for four characters.         *)
Line(n, v) == [name |-> n, value |-> v]
Lines ==
    {Line("NAME", <<"n">>), Line("NAME", <<"o">>), Line("NAME", <<" ">>),
     Line("VERSION_ID", <<>>), Line("VERSION_ID", <<"1">>),
     Line("VERSION_ID", <<"1", "2", "3", "4", " ">>),
     Line("BUILD_ID", <<"7", " ", " ">>), Line("BUILD_ID", <<"8", "9">>),
     Line("HOME_URL", <<"u">>), Line(NoEquals, <<>>)}
Files == UNION {[1..n -> Lines] : n \in 0..3} \union {NoFile}

Release(v, b) == <<Line("NAME", <<"n">>), Line("VERSION_ID", v),
                   Line("BUILD_ID", b)>>
Release1 == Release(<<"1">>, <<"7">>)
LaterFiles ==
    {NoFile, <<>>, Release1, Release(<<"2">>, <<"7">>), Release(<<"1">>, <<"8">>),
     Release(<<"1">>, <<"7", "8">>), Release(<<>>, <<"7">>),
     <<Line("VERSION_ID", <<"1">>), Line("BUILD_ID", <<"7">>)>>,
     <<Line("NAME", <<"o">>)>>, <<Line("VERSION_ID", <<"2">>)>>}

Inventories ==
    {[fans |-> f, leds |-> l, psus |-> <<2, 1>>, temps |-> <<1>>] :
        f \in {<<>>, <<1>>, <<3, 1, 2>>}, l \in {<<>>, <<2, 1>>}}
NoInventory == [fans |-> <<>>, leds |-> <<>>, psus |-> <<>>, temps |-> <<>>]

(* Entries of a map: its code points in order, each with a color and a     *)
(* description or, in the second list, one of them without.                *)
WholeEntries(points) == [r \in 1..Len(points) |-> [point |-> points[r], whole |-> TRUE]]
LacksOne(points) ==
    {[WholeEntries(points) EXCEPT ![r].whole = FALSE] : r \in 1..Len(points)}

Usual == [images |-> <<Release1>>, shows |-> 0, inventory |-> NoInventory,
          plugins |-> {"psus", "temps"},
          mgmtIntf |-> TRUE, daemons |-> TRUE, acl |-> TRUE, qosInfo |-> TRUE,
          ports |-> <<Port("a", NoPort, <<"b", "c">>), Port("b", "a", <<>>),
                      Port("c", "a", <<>>)>>,
          queues |-> <<[queue |-> 0, prio |-> 0, text |-> "t1"],
                       [queue |-> 1, prio |-> 1, text |-> NoText]>>,
          schedule |-> <<[queue |-> 0, algorithm |-> "dwrr", weight |-> 1],
                         [queue |-> 1, algorithm |-> "strict", weight |-> 0]>>,
          names |-> [default |-> "default", factory |-> "factory-default"],
          cos |-> WholeEntries(<<0, 1>>), dscp |-> WholeEntries(<<0, 1, 2>>)]

PointLists == {<<>>, <<0>>, <<1, 0>>, <<0, 1, 2>>, <<2, 1, 0>>, <<0, 1, 2, 3>>}
EntryLists == {WholeEntries(p) : p \in PointLists}
                  \union UNION {LacksOne(p) : p \in {<<0>>, <<1, 0>>}}

AllInputs ==
    {[Usual EXCEPT !.queues = q, !.names = n] : q \in Queues, n \in Names}
    \union {[Usual EXCEPT !.schedule = s, !.names = n] :
              s \in Schedules, n \in Names}
    \union {[Usual EXCEPT !.ports = p] : p \in PortLists}
    \union {[Usual EXCEPT !.cos = c, !.dscp = d] :
              c \in EntryLists, d \in EntryLists}
    \union {[Usual EXCEPT !.images = <<f>>] : f \in Files}
    \union {[Usual EXCEPT !.images = <<f, g, Release1>>] :
              f \in LaterFiles, g \in LaterFiles}
    \union {[Usual EXCEPT !.shows = 2, !.inventory = i, !.plugins = ps] :
              i \in Inventories, ps \in SUBSET {"psus", "temps"}}
    \union {[Usual EXCEPT !.mgmtIntf = m, !.daemons = d, !.acl = a] :
              m \in BOOLEAN, d \in BOOLEAN, a \in BOOLEAN}
    \union {[Usual EXCEPT !.qosInfo = FALSE, !.queues = <<>>,
                          !.schedule = <<>>, !.cos = <<>>, !.dscp = <<>>]}
=============================================================================
