----------------------------- MODULE DriverCore -----------------------------
(***************************************************************************)
(* drv::DriverCore: descriptions of devices, drivers, and the bindings     *)
(* bind_all makes of them.  A description is [type, name, io_base]; a      *)
(* driver is a name with an interface, the type of description it takes,   *)
(* the ports it matches and a pool of instances.                           *)
(***************************************************************************)
EXTENDS Integers, Sequences, FiniteSets

CONSTANTS Driver,       \* [desc_type, iface_type, ports, max_instances] of a driver
          MaxDescs, MaxDrivers, MaxBindings

ASSUME DriverAssumption ==
  /\ \A d \in DOMAIN Driver : Driver[d].max_instances \in Nat
  /\ MaxDescs \in Nat /\ MaxDrivers \in Nat /\ MaxBindings \in Nat

VARIABLES descs, drivers,
          bindings,     \* [iface_type, desc, driver, instance]
          used          \* driver -> the instances probe has given out

core_vars == <<descs, drivers, bindings, used>>

TypeTag == UNION {{Driver[d].desc_type, Driver[d].iface_type} : d \in DOMAIN Driver}

DescEntry == [type : TypeTag, name : STRING, io_base : Nat]

Binding == [iface_type : TypeTag, desc : DescEntry, driver : DOMAIN Driver, instance : Nat]

CoreInit ==
  /\ descs = <<>> /\ drivers = <<>> /\ bindings = <<>>
  /\ used = [d \in DOMAIN Driver |-> {}]

\* add_desc and register_driver, for all the board and the architecture have.
add_descs(ds) ==
  descs' = SubSeq(descs \o ds, 1, IF Len(descs \o ds) > MaxDescs THEN MaxDescs ELSE Len(descs \o ds))

register_drivers(ds) ==
  drivers' = SubSeq(drivers \o ds, 1,
                    IF Len(drivers \o ds) > MaxDrivers THEN MaxDrivers ELSE Len(drivers \o ds))

match(d, desc) == desc.io_base \in Driver[d].ports

\* desc_type and match_generic: a driver sees only descriptions of its type.
matches(d, desc) == Driver[d].desc_type = desc.type /\ match(d, desc)

\* Mutant: the pool is not asked.
probed_shared(given, d) == 0

\* The first instance of the driver that is not used; max_instances is none.
probed(given, d) ==
  CHOOSE i \in 0 .. Driver[d].max_instances :
    /\ i \notin given[d]
    /\ \A j \in 0 .. i - 1 : j \in given[d]

\* One turn of the inner loop of bind_all.  probe comes before the test for
\* room: without room the instance is used, not bound, and the loop stops.
bound(acc, desc, d) ==
  LET i    == probed(acc.used, d)
      room == Len(acc.bindings) < MaxBindings
  IN  IF \/ acc.stop
         \/ ~ matches(d, desc)
         \/ i = Driver[d].max_instances
      THEN acc
      ELSE [bindings |-> IF room THEN Append(acc.bindings,
                                             [iface_type |-> Driver[d].iface_type, desc |-> desc,
                                              driver |-> d, instance |-> i])
                         ELSE acc.bindings,
            used     |-> [acc.used EXCEPT ![d] = @ \cup {i}],
            stop     |-> ~ room]

\* The inner loop: one description is offered to every driver.
offered(acc, desc) ==
  LET upto[k \in 0 .. Len(drivers)] ==
        IF k = 0 THEN [acc EXCEPT !.stop = FALSE] ELSE bound(upto[k - 1], desc, drivers[k])
  IN  upto[Len(drivers)]

all_bound ==
  LET upto[k \in 0 .. Len(descs)] ==
        IF k = 0 THEN [bindings |-> bindings, used |-> used, stop |-> FALSE]
                 ELSE offered(upto[k - 1], descs[k])
  IN  upto[Len(descs)]

bind_all ==
  /\ bindings' = all_bound.bindings
  /\ used' = all_bound.used
  /\ UNCHANGED <<descs, drivers>>

\* The index of the first binding of the type whose description is accepted;
\* 0 is nullptr.
find_if(iface, accepted) ==
  LET hits == {i \in DOMAIN bindings :
                 bindings[i].iface_type = iface /\ bindings[i].desc \in accepted}
  IN  IF hits = {} THEN 0 ELSE CHOOSE i \in hits : \A j \in hits : i <= j
=============================================================================
