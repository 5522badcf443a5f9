-------------------------- MODULE MCEntryLifecycle --------------------------
\* Two accounts that share machine m1; device d2 has been merged of two; area
\* kitchen holds d1 and a lamp, area hall only the entity of d2 that says so;
\* gone is an id that no device has any more.
EXTENDS EntryLifecycle, TLC

MCAccount == "first" :> {"m1", "m2"} @@ "second" :> {"m1", "m3"}
MCDeviceIds == <<"d1", "d2", "gone", "lamp">>
MCIdentifiers ==
  "d1" :> <<"m1">> @@ "d2" :> <<"m2", "m3">> @@ "gone" :> <<>> @@ "lamp" :> <<>>
MCAreaOfDevice ==
  "d1" :> "kitchen" @@ "lamp" :> "kitchen" @@ "d2" :> "none" @@ "gone" :> "none"
MCDeviceOf == "button1" :> "d1" @@ "button2" :> "d2" @@ "light" :> "lamp"
MCAreaOf == "button1" :> "none" @@ "button2" :> "hall" @@ "light" :> "none"

\* Targets that name up to two things.
MCTargets ==
  {t \in [devices : SUBSET ToSet(MCDeviceIds), entities : SUBSET {"button1", "button2", "light"},
          areas : SUBSET {"kitchen", "hall"}, floorOrLabel : BOOLEAN] :
     Cardinality(t.devices) + Cardinality(t.entities) + Cardinality(t.areas)
       + (IF t.floorOrLabel THEN 1 ELSE 0) <= 2}
=============================================================================
