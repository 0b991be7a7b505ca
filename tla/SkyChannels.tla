---------------------------- MODULE SkyChannels ----------------------------
(***************************************************************************)
(* packages/multimedia/vdr-skychannels: get_channels_sky reads the tables  *)
(* a satellite broadcasts and writes the list of channels.                 *)
(*                                                                         *)
(* Tables are sent in sections, over and over (a carousel); the program    *)
(* comes in anywhere and sections get lost.  It reads three tables one     *)
(* after the other: which services the bouquet has (BAT), their names      *)
(* (SDT) and how to tune to them (NIT).  It does not look at the numbers   *)
(* of the sections: a table counts as read when a quarter of its rows have *)
(* come again.                                                             *)
(*                                                                         *)
(* A transport is the pair of transport_stream_id and original_network_id, *)
(* which are always compared together, as one number.  The tables of the   *)
(* program are sorted and without duplicates, so that bsearch is a test of *)
(* membership; only where the code walks along them is the order modelled. *)
(***************************************************************************)
EXTENDS Naturals, Sequences, FiniteSets, SequencesExt

CONSTANTS
    Broadcasts,  \* what may be on the air: [bat, sdt, nit], sequences of sections
    Sky          \* SKY_BOUQUET_ID

\* A section of the BAT:  [bouquet, descriptors], a descriptor 0xb1 being
\*                        [transport, stream, services, beyond]: the services are
\*                        <<id, type, number>>, and beyond is what the bytes after
\*                        the descriptor look like when read as one more.
\* A section of the SDT:  [transport, names], pairs <<id, name>>.
\* A section of the NIT:  a sequence of [transport, descriptors], a descriptor
\*                        being [tag |-> 65, services] (0x41), pairs <<id, type>>,
\*                        or [tag |-> 67, tuning] (0x43).

VARIABLES
    air,        \* the broadcast
    next,       \* [table -> the section that comes next]
    pc,         \* "open", "read", "process", "save", "saved" or "failed"
    stepFilter,
    buffer,     \* the last section read: <<table, number>>, or <<>>
    lServices, nServicesLoop,   \* rows <<transport, id, type, stream, number>>
    lSdts, nSdtsLoop,           \* names by <<transport, id>>
    lNits, nNitsLoop,           \* tunings by <<transport, id>>
    file,       \* the lines written: [service, name, tuning]
    lost        \* (history) a section of the table that is being read was lost

tables == <<lServices, nServicesLoop, lSdts, nSdtsLoop, lNits, nNitsLoop>>
vars == <<air, next, pc, stepFilter, buffer, tables, file, lost>>

None == 0          \* no name, or a tuning of zeros
Missing == 999     \* the tuning of a service without a row in lNits
Empty == [k \in {} |-> None]

Init ==
    /\ air \in Broadcasts
    /\ next \in {n \in [{"bat", "sdt", "nit"} -> 1 .. 4] :
                    \A t \in DOMAIN n : n[t] <= Len(air[t])}
    /\ pc = "open" /\ stepFilter = 0 /\ buffer = <<>>
    /\ lServices = {} /\ lSdts = Empty /\ lNits = Empty
    /\ nServicesLoop = 0 /\ nSdtsLoop = 0 /\ nNitsLoop = 0
    /\ file = <<>> /\ lost = FALSE

----------------------------------------------------------------------------
\* The services of television and radio.
ServiceTypes == {1, 2, 4, 5} \cup 22 .. 27

\* Those for the receivers of Sky: sd, hd, all.
StreamTypes == {0, 2, 65535}

Extend(f, g) == [k \in DOMAIN f \cup DOMAIN g |-> IF k \in DOMAIN f THEN f[k] ELSE g[k]]

\* read_bat: loop3 is the length of the descriptor although two bytes of it have
\* been read, so the loop reads one service more than there is.
BatRows(section) ==
    LET Row(d, s) == <<d.transport, s[1], s[2], d.stream, s[3]>>
        Rows(d) == [i \in 1 .. Len(d.services) + 1 |->
                       Row(d, IF i <= Len(d.services) THEN d.services[i] ELSE d.beyond)]
        Listed(d) == IF d.stream \in StreamTypes
                     THEN SelectSeq(Rows(d), LAMBDA r : r[3] \in ServiceTypes) ELSE <<>>
    IN IF section.bouquet # Sky THEN <<>>
       ELSE FoldLeft(LAMBDA rows, d : rows \o Listed(d), <<>>, section.descriptors)

KnownNotCounted(section) ==   \* Mutant: no nServicesLoop ++.
    /\ lServices' = lServices \cup ToSet(BatRows(section))
    /\ UNCHANGED nServicesLoop

\* bsearch_service_id compares everything a row has.
Known(row) == row \in lServices

ReadBat(section) ==
    LET rows == BatRows(section)
        new == {r \in ToSet(rows) : ~Known(r)}
    IN /\ lServices' = lServices \cup new
       /\ nServicesLoop' = nServicesLoop + Len(rows) - Cardinality(new)

\* read_sdt: the first name stays.
ReadSdt(section) ==
    LET Key(n) == <<section.transport, n[1]>>
        names == ToSet(section.names)
        new == {Key(n) : n \in names} \ DOMAIN lSdts
    IN /\ lSdts' = Extend(lSdts, [k \in new |-> (CHOOSE n \in names : Key(n) = k)[2]])
       /\ nSdtsLoop' = nSdtsLoop + Cardinality(names) - Cardinality(new)

\* bsearch_nit: the order of the first field that differs.
Less(a, b) == \E i \in DOMAIN a : a[i] < b[i] /\ \A j \in 1 .. (i - 1) : a[j] = b[j]

\* bsearch_sky_number.
LessBySky(a, b) ==
    LET Key(r) == <<r[5], r[4], r[3], r[1], r[2]>> IN Less(Key(a), Key(b))

\* The n rows that follow one another from a row on.
RowsFrom(rows, key, n) ==
    LET after == {k \in DOMAIN rows : ~Less(k, key)}
    IN {k \in after : Cardinality({j \in after : Less(j, k)}) < n}

\* read_nit, one descriptor: w has the rows and what is counted of this transport,
\* how many rows it added and the least id of them.
ReadServiceList(w, transport, d) ==
    LET ids == {s[1] : s \in {t \in ToSet(d.services) : t[1] > 0 /\ t[2] \in ServiceTypes}}
        new == {i \in ids : <<transport, i>> \notin DOMAIN w.rows}
    IN [rows |-> Extend(w.rows, [k \in {<<transport, i>> : i \in new} |-> None]),
        loop |-> w.loop + Cardinality(ids \ new),
        min  |-> CHOOSE m \in new \cup {w.min} : \A i \in new \cup {w.min} : m <= i,
        n    |-> w.n + Cardinality(new)]

ReadDeliverySystem(w, transport, d) ==
    LET set == {k \in RowsFrom(w.rows, <<transport, w.min>>, w.n) : k[1] = transport}
    IN IF <<transport, w.min>> \notin DOMAIN w.rows THEN w
       ELSE [w EXCEPT !.rows = [k \in DOMAIN w.rows |-> IF k \in set THEN d.tuning ELSE w.rows[k]],
                      !.n = 0]

ReadDescriptors(w, t) ==
    FoldLeft(LAMBDA v, d : IF d.tag = 65 THEN ReadServiceList(v, t.transport, d)
                                         ELSE ReadDeliverySystem(v, t.transport, d),
             w, t.descriptors)

MinKept(w, t) ==   \* Mutant: service_id_min is not reset for each transport.
    ReadDescriptors([w EXCEPT !.n = 0], t)

ReadTransport(w, t) == ReadDescriptors([w EXCEPT !.min = 65535, !.n = 0], t)

ReadNit(section) ==
    LET w == FoldLeft(ReadTransport, [rows |-> lNits, loop |-> nNitsLoop, min |-> 65535, n |-> 0],
                      section)
    IN lNits' = w.rows /\ nNitsLoop' = w.loop + 1

----------------------------------------------------------------------------
\* The tables on the PID that is filtered, and the one that is wanted.
OnPid == IF stepFilter \in {0, 1} THEN {"bat", "sdt"} ELSE {"nit"}
Wanted == CASE stepFilter = 0 -> "bat" [] stepFilter = 1 -> "sdt" [] OTHER -> "nit"

Passes(table) == next' = [next EXCEPT ![table] = 1 + (@ % Len(air[table]))]

OpenBat ==   \* Mutant: the filter stays as it was.
    /\ pc = "open" /\ pc' = "read"
    /\ UNCHANGED <<air, next, stepFilter, buffer, tables, file, lost>>

\* setDemux.
Open ==
    /\ pc = "open" /\ pc' = "read"
    /\ stepFilter' = IF stepFilter = 2 THEN 3 ELSE stepFilter
    /\ UNCHANGED <<air, next, buffer, tables, file, lost>>

Read(table, number) ==
    /\ pc = "read" /\ pc' = "process"
    /\ table \in OnPid /\ next[table] = number
    /\ buffer' = <<table, number>>
    /\ Passes(table)
    /\ UNCHANGED <<air, stepFilter, tables, file, lost>>

\* A section with a wrong checksum never gets to the program.
Lose(table) ==
    /\ pc = "read" /\ table \in OnPid
    /\ Passes(table)
    /\ lost' = (lost \/ table = Wanted)
    /\ UNCHANGED <<air, pc, stepFilter, buffer, tables, file>>

\* EOVERFLOW: what was waiting is lost, and the program goes on with what is still
\* in its buffer.
Overflow ==
    /\ pc = "read" /\ buffer # <<>> /\ pc' = "process"
    /\ lost' = TRUE
    /\ UNCHANGED <<air, next, stepFilter, buffer, tables, file>>

\* What is in the buffer, if it is of the table that is read.
Process ==
    /\ pc = "process"
    /\ LET section == air[buffer[1]][buffer[2]] IN
       CASE buffer[1] = "bat" /\ stepFilter = 0 ->
               ReadBat(section) /\ UNCHANGED <<lSdts, nSdtsLoop, lNits, nNitsLoop>>
         [] buffer[1] = "sdt" /\ stepFilter = 1 ->
               ReadSdt(section) /\ UNCHANGED <<lServices, nServicesLoop, lNits, nNitsLoop>>
         [] buffer[1] = "nit" /\ stepFilter = 3 ->
               ReadNit(section) /\ UNCHANGED <<lServices, nServicesLoop, lSdts, nSdtsLoop>>
         [] OTHER -> UNCHANGED tables
    /\ stepFilter' =
          CASE buffer[1] # Wanted -> stepFilter
            [] Wanted = "bat" /\ nServicesLoop' * 4 > Cardinality(lServices') -> 1
            [] Wanted = "sdt" /\ nSdtsLoop' * 4 > Cardinality(DOMAIN lSdts') -> 2
            [] Wanted = "nit" /\ nNitsLoop' * 4 > Cardinality(DOMAIN lNits') -> 4
            [] OTHER -> stepFilter
    /\ pc' = CASE stepFilter' = 2 -> "open" [] stepFilter' = 4 -> "save" [] OTHER -> "read"
    /\ UNCHANGED <<air, next, buffer, file, lost>>

\* open, ioctl, read or fopen fails.
Fail ==
    /\ pc \in {"open", "read", "save"} /\ pc' = "failed"
    /\ UNCHANGED <<air, next, stepFilter, buffer, tables, file, lost>>

ById(a, b) == a[2] = b[2]   \* Mutant: services of different transports are mixed up.

SameService(a, b) == a[1] = b[1] /\ a[2] = b[2]

\* The first name that matches, the last tuning.
Save ==
    /\ pc = "save" /\ pc' = "saved"
    /\ LET Found(f, s, none) ==
               LET ks == {k \in DOMAIN f : SameService(k, s)}
               IN IF ks = {} THEN none ELSE f[CHOOSE k \in ks : TRUE]
           Line(s) == [service |-> s, name |-> Found(lSdts, s, None),
                       tuning |-> Found(lNits, s, Missing)]
           rows == SetToSortSeq(lServices, LessBySky)
       IN file' = [i \in DOMAIN rows |-> Line(rows[i])]
    /\ UNCHANGED <<air, next, stepFilter, buffer, tables, lost>>

Next ==
    \/ Open \/ Overflow \/ Process \/ Fail \/ Save
    \/ \E table \in {"bat", "sdt", "nit"}, n \in 1 .. 4 : Read(table, n)
    \/ \E table \in {"bat", "sdt", "nit"} : Lose(table)

\* A section of the table that is read, with something in it.
ReadRows ==
    \E n \in 1 .. 4 :
        /\ Read(Wanted, n)
        /\ stepFilter = 0 => BatRows(air.bat[n]) # <<>>

\* Whatever the program does when it does not wait for a section.
Proceed ==
    /\ pc \in {"open", "process", "save"}
    /\ pc' \in {"read", "open", "save", "saved"}

\* The table is sent all the time, and does not always overflow.
Sent(table) == Lose(table) \/ \E n \in 1 .. 4 : Read(table, n)

\* The program goes on, tables are sent, and not all of their sections are lost.
Spec ==
    /\ Init /\ [][Next]_vars
    /\ WF_pc(Proceed) /\ SF_vars(Sent(Wanted)) /\ SF_vars(ReadRows)

----------------------------------------------------------------------------
\* Every variable has its type, and what was read of a table is of that table.
TypeOK ==
    /\ air \in Broadcasts
    /\ \A t \in {"bat", "sdt", "nit"} : next[t] \in 1 .. Len(air[t])
    /\ pc \in {"open", "read", "process", "save", "saved", "failed"} /\ stepFilter \in 0 .. 4
    /\ buffer # <<>> => buffer[2] \in 1 .. Len(air[buffer[1]])
    /\ lServices \subseteq UNION {ToSet(BatRows(air.bat[i])) : i \in 1 .. Len(air.bat)}
    /\ nServicesLoop \in Nat /\ nSdtsLoop \in Nat /\ nNitsLoop \in Nat
    /\ lost \in BOOLEAN
    /\ pc = "read" => stepFilter \in {0, 1, 3}
    /\ lNits # Empty => stepFilter \in {3, 4}

\* What is on the air: the services of the bouquet, names, tunings.
Carousel(table) == ToSet(air[table])
SentServices ==
    UNION {UNION {{<<d.transport, s[1], s[2], d.stream, s[3]>> : s \in ToSet(d.services)} :
                     d \in {e \in ToSet(b.descriptors) : e.stream \in StreamTypes}} :
              b \in {c \in Carousel("bat") : c.bouquet = Sky}}
SentNames(s) ==
    {n[2] : n \in {m \in UNION {ToSet(x.names) : x \in {y \in Carousel("sdt") : y.transport = s[1]}} :
                      m[1] = s[2]}}
SentTransports == UNION {ToSet(x) : x \in Carousel("nit")}
SentTunings(transport) ==
    {d.tuning : d \in {e \in UNION {ToSet(t.descriptors) :
                               t \in {u \in SentTransports : u.transport = transport}} : e.tag = 67}}

\* Every section of the NIT has more services of its own than the program takes for
\* a quarter.
Dense ==
    \A x \in Carousel("nit") :
        4 <= Cardinality(UNION {UNION {{<<t.transport, s[1]>> : s \in ToSet(d.services)} :
                                          d \in {e \in ToSet(t.descriptors) : e.tag = 65}} :
                                   t \in ToSet(x)})

\* If nothing was lost, the file has every service of the bouquet that is of
\* television or radio, in the order of the channel numbers, with its name and its
\* tuning, wherever in the carousels the program came in: a quarter of the rows do
\* not come again before all have come.  That takes a NIT without small sections,
\* since each section counts as a repetition.
FileComplete ==
    pc = "saved" /\ ~lost =>
        /\ \A i, j \in DOMAIN file : i < j => file[i].service[5] <= file[j].service[5]
        /\ \A s \in {r \in SentServices : r[3] \in ServiceTypes} :
              \E line \in ToSet(file) :
                /\ line.service = s
                /\ line.name \in SentNames(s)
                /\ Dense => line.tuning \in SentTunings(s[1])

\* Whatever is lost or read twice, a line never has the name of another service or
\* the tuning of another transport: it may have none.
NeverWrong ==
    \A line \in ToSet(file) :
        /\ line.name \in SentNames(line.service) \cup {None}
        /\ line.tuning \in SentTunings(line.service[1]) \cup {None, Missing}

\* With a bouquet on the air the program ends, although it never looks whether it
\* has all the sections, as long as not all of them are lost.
ScanEnds == <>(pc \in {"saved", "failed"})
=============================================================================
