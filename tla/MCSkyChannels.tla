--------------------------- MODULE MCSkyChannels ---------------------------
(***************************************************************************)
(* Instances of SkyChannels: two transports that use the same service ids, *)
(* a foreign bouquet, services that are not for television, a channel with *)
(* two numbers, and three ways to send the NIT.                            *)
(***************************************************************************)
EXTENDS SkyChannels

SkyId == 25168

Data == <<9, 12, 0>>     \* read as a service, but not one of television

Tv(id, number) == <<id, 1, number>>

Bouquet ==
    << [bouquet |-> SkyId, descriptors |->
           << [transport |-> 1, stream |-> 0, beyond |-> Tv(16652, 1),
               services |-> <<Tv(1, 101), Tv(2, 102), Data>>],
              [transport |-> 1, stream |-> 7, beyond |-> Data, services |-> <<Tv(6, 106)>>] >>],
       [bouquet |-> 4096, descriptors |->
           << [transport |-> 2, stream |-> 0, beyond |-> Data, services |-> <<Tv(7, 1)>>] >>],
       [bouquet |-> SkyId, descriptors |->
           << [transport |-> 2, stream |-> 2, beyond |-> Data,
               services |-> <<Tv(2, 201), Tv(2, 501)>>],
              [transport |-> 2, stream |-> 65535, beyond |-> Data,
               services |-> <<Tv(3, 202)>>] >>] >>

Names ==
    << [transport |-> 1, names |-> << <<1, 1>>, <<2, 2>>, <<3, None>> >>],
       [transport |-> 2, names |-> << <<2, 3>>, <<3, 4>> >>] >>

List(ids) == [tag |-> 65, services |-> [i \in 1 .. Len(ids) |-> <<ids[i], 1>>]]
Tune(t) == [tag |-> 67, tuning |-> t]

\* A section for each transport.
Large ==
    << << [transport |-> 1, descriptors |-> <<List(<<2, 1, 4, 3>>), Tune(11000)>>] >>,
       << [transport |-> 2, descriptors |-> <<List(<<3, 4>>), List(<<2, 5>>), Tune(12000)>>] >> >>

\* Both in one section, in either order, and one again in another.
Joined ==
    << << [transport |-> 1, descriptors |-> <<List(<<2, 1, 4>>), Tune(11000)>>],
          [transport |-> 2, descriptors |-> <<List(<<3, 2, 5>>), Tune(12000)>>] >>,
       << [transport |-> 2, descriptors |-> <<List(<<3, 2, 5>>), Tune(12000)>>],
          [transport |-> 1, descriptors |-> <<List(<<2, 1, 4>>), Tune(11000)>>] >> >>

\* Sections of three services or fewer.
Small ==
    << << [transport |-> 1, descriptors |-> <<List(<<1, 2>>), Tune(11000)>>] >>,
       << [transport |-> 2, descriptors |-> <<List(<<2, 3>>), Tune(12000)>>] >> >>

OnAir == {[bat |-> Bouquet, sdt |-> Names, nit |-> n] : n \in {Large, Joined, Small}}
=============================================================================
