----------------------------- MODULE MCSysdBoot -----------------------------
(* Switches, manifests and EEPROMs for main: everything that may happen to *)
(* an ordinary one, and many others that boot undisturbed.                 *)
EXTENDS SysdBoot

SomeAnswers == {<<"text">>, <<"comment", "text">>,
                <<"comment", "comment", "text", "text">>}

(* dmidecode's version, and its complaint, as comments; or nothing at all. *)
CommentsOnly == {<<>>, <<"comment", "comment">>}

-----------------------------------------------------------------------------
(* Manifests.                                                              *)
Other == [type |-> "other"]
True == [type |-> "true"]
False == [type |-> "false"]
Text(t) == [type |-> "string", of |-> t]
Array(s) == [type |-> "array", of |-> s]
Object(f) == [type |-> "object", of |-> f]
Empty == Object([x \in {} |-> x])

SomeDaemonsKeys == {"daemons", "daemons_old"}
SomeHandlerKeys == {"is_hw_handler", "is_hw_handler2"}
SomeMgmtKeys == {"mgmt_intf", "mgmt_intf2"}
SomeIntfKeys == {"intf", "intf_mac"}
SomeSelfNames == {"ops-sysd", "ops-sysd2"}

Handler == Object([is_hw_handler |-> True])
NoHandler == Object([is_hw_handler |-> False, user |-> Text("root")])
Unclear == Object([is_hw_handler |-> True, is_hw_handler2 |-> False])

Entry(n) == {n :> e : e \in {Handler, NoHandler, Unclear, Empty, Other}}

DaemonsOf == {Empty} \union
    {Object(a @@ b @@ c) : a \in Entry("ops-sysd"), b \in Entry("ops-fand"),
                           c \in {"ops-tempd" :> e : e \in {Handler, Empty}}}

Eth0 == Object([intf |-> Text("eth0")])
MgmtOf == {Eth0, Empty, Other, Object([intf |-> Other]),
           Object([intf |-> Text("eth0"), intf_mac |-> Text("auto")]),
           Object([intf |-> Other, intf_mac |-> Text("eth1")]),
           Object([name |-> Text("eth0")])}

TwoDaemons == Object([d1 \in {"ops-sysd", "ops-fand"} |->
                          IF d1 = "ops-sysd" THEN Handler ELSE NoHandler])

PlainManifest == Object([daemons |-> TwoDaemons, mgmt_intf |-> Eth0])

Manifests ==
    {PlainManifest, Other, Text("x"), Array(<<>>), Empty}
    \union {Object([daemons |-> d, mgmt_intf |-> Eth0]) : d \in DaemonsOf}
    \union {Object([daemons |-> TwoDaemons, mgmt_intf |-> m]) : m \in MgmtOf}
    \union {Object([mgmt_intf |-> m, mgmt_intf2 |-> n]) : m, n \in MgmtOf}
    \union {Object([daemons |-> TwoDaemons]),
            Object([daemons |-> Array(<<Handler, PlainManifest>>)]),
            Object([daemons |-> TwoDaemons, daemons_old |-> TwoDaemons]),
            Object([image |-> PlainManifest, daemons |-> TwoDaemons,
                    version |-> Text("1")]),
            Array(<<Object([daemons |-> TwoDaemons]), Other,
                    Array(<<Object([mgmt_intf |-> Eth0])>>),
                    Object([daemons |-> Object([x \in {"ops-fand"} |->
                                                    Handler])])>>)}

-----------------------------------------------------------------------------
(* EEPROMs: images of up to three records, intact or with one byte changed,  *)
(* the length in the header changed, or a version nobody supports.         *)
Macs(n) == [code |-> Fe!NumMacs, value |-> <<n>>]
FirstAt(b) == [code |-> Fe!BaseMac, value |-> <<0, 0, 0, 0, 0, b>>]

Records ==
    {Macs(0), Macs(2), Macs(256), FirstAt(10), FirstAt(255),
     [code |-> \h21, value |-> <<65, 66>>], [code |-> \h21, value |-> <<>>],
     [code |-> \h2f, value |-> <<67>>],
     [code |-> Fe!CountryCode, value |-> <<85, 83>>],
     [code |-> Fe!ManufactureDate, value |-> [k \in 1..19 |-> 49]],
     [code |-> Fe!DeviceVersion, value |-> <<7>>],
     [code |-> Fe!VendorExtension, value |-> <<1, 2, 3>>]}

Images == {Fe!Image(r) : r \in BoundedSeq(Records, 3)}

PlainEeprom == Fe!Image(<<Macs(3), FirstAt(10)>>)

NewBytes == {0, 1, 3, 5, \h21, \h2a, \hfd, \hfe, \hff}

Damaged(e) ==
    {[e EXCEPT !.data[i] = b] : i \in DOMAIN e.data, b \in NewBytes}
    \union {[e EXCEPT !.total = t] : t \in {0, e.total - 1, e.total - 6,
                                            e.total + 1, e.total + 300}}
    \union {[e EXCEPT !.version = v] : v \in {0, 2}}

ToDamage == {Fe!Image(<<r>>) : r \in Records}
                \union {Fe!Image(<<Macs(2), r>>) : r \in Records}

Eeproms == Images \union UNION {Damaged(e) : e \in ToDamage}

-----------------------------------------------------------------------------
PlainSystem ==
    [manifest |-> PlainManifest, answers |-> SomeAnswers, fresh |-> "hash",
     zeroed |-> FALSE, fruYaml |-> FALSE, macs |-> 0,
     eeprom |-> PlainEeprom, statusLed |-> TRUE,
     maxFaults |-> 0, maxCrashes |-> 0, maxExits |-> 0]

Undisturbed ==
    LET quiet == [PlainSystem EXCEPT !.answers = {<<"text">>}]
    IN  {[quiet EXCEPT !.manifest = m, !.zeroed = z] :
             m \in Manifests, z \in BOOLEAN}
        \union {[quiet EXCEPT !.manifest = Empty, !.eeprom = e] : e \in Eeproms}

(* fresh matters only without an answer, macs only with a fru.yaml.        *)
Ordinary ==
    {[s EXCEPT !.maxFaults = 2, !.maxCrashes = 2, !.maxExits = 1] : s \in
        {PlainSystem, [PlainSystem EXCEPT !.statusLed = FALSE]}
        \union {[PlainSystem EXCEPT !.answers = CommentsOnly, !.fresh = f] :
                    f \in {"hash", "nul", "other"}}
        \union {[PlainSystem EXCEPT !.fruYaml = TRUE, !.macs = n] : n \in 0..3}}

SomeSystems == Ordinary \union Undisturbed

(* Nothing fails, but there may be no SMBIOS.                              *)
QuietSystems ==
    {[PlainSystem EXCEPT !.answers = a, !.fresh = f, !.fruYaml = y] :
         a \in {SomeAnswers, CommentsOnly}, f \in {"hash", "nul", "other"},
         y \in BOOLEAN}
=============================================================================
