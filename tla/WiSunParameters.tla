--------------------------- MODULE WiSunParameters ---------------------------
(***************************************************************************)
(* The tables of parameters.py.  Frequencies are in kHz, which all of them *)
(* are multiples of, except for those of PHY_MODES, in 100 Hz.  Names and  *)
(* the columns that are only printed are left out.                         *)
(***************************************************************************)
EXTENDS Integers, Sequences, FiniteSets

Domains ==
  {"AU/NZ", "BZ", "CN", "EU", "HK", "IN", "JP", "KR", "MX", "MY", "NA", "PH",
   "SG", "TH", "VN", "WW"}

PhyTypes == 0 .. 5

\* Symbol rates and modulation indices (in tenths) of the PHY modes 1 to 8.
PhyModesFsk ==
  <<[rate |-> 50, index |-> 5], [rate |-> 50, index |-> 10],
    [rate |-> 100, index |-> 5], [rate |-> 100, index |-> 10],
    [rate |-> 150, index |-> 5], [rate |-> 200, index |-> 5],
    [rate |-> 200, index |-> 10], [rate |-> 300, index |-> 5]>>

PhyModesOfdm == 0 .. 6

\* The IEEE 802.15.4 PHY modes with 2-FSK: PHY type, mode, data rate and channel
\* spacing in 100 Hz, modulation index in tenths.
PhyModes ==
  {[type |-> t[1], mode |-> t[2], rate |-> t[3], index |-> t[4], spacing |-> t[5]] :
     t \in {<<0, 0, 48, 10, 125>>, <<0, 2, 100, 5, 125>>, <<0, 3, 200, 5, 125>>,
            <<0, 4, 400, 5, 125>>, <<0, 5, 48, 5, 125>>, <<0, 6, 24, 20, 125>>,
            <<1, 0, 500, 10, 2000>>, <<1, 1, 1000, 10, 4000>>,
            <<1, 2, 1500, 5, 4000>>, <<1, 3, 2000, 5, 4000>>,
            <<1, 5, 2000, 10, 6000>>, <<1, 7, 1000, 5, 2000>>,
            <<1, 8, 500, 5, 1000>>, <<1, 9, 1500, 5, 2000>>,
            <<1, 10, 3000, 5, 4000>>, <<9, 0, 100, 10, 500>>,
            <<9, 1, 200, 10, 1000>>}}

\* Channel plan, its channel spacing, its channel 0.
ChannelPlans ==
  {<<1, 200, 902200>>, <<2, 400, 902400>>, <<3, 600, 902600>>,
   <<4, 800, 902800>>, <<5, 1200, 903200>>, <<21, 200, 920600>>,
   <<22, 400, 920900>>, <<23, 600, 920800>>, <<24, 800, 921100>>,
   <<32, 100, 863100>>, <<33, 200, 863100>>, <<34, 100, 870100>>,
   <<35, 200, 870200>>, <<36, 100, 863100>>, <<37, 200, 863100>>,
   <<39, 100, 865100>>, <<40, 200, 865100>>, <<41, 100, 866100>>,
   <<42, 200, 866100>>, <<43, 400, 866300>>, <<48, 200, 915200>>,
   <<49, 400, 915400>>, <<64, 200, 920200>>, <<65, 400, 920400>>,
   <<80, 200, 919200>>, <<81, 400, 919200>>, <<96, 200, 917100>>,
   <<97, 400, 917300>>, <<112, 200, 2400200>>, <<113, 400, 2400400>>,
   <<128, 250, 920625>>, <<160, 200, 470200>>}

\* Channel plan, upper end of its frequency band.
FrequencyBands ==
  {<<1, 928000>>, <<2, 928000>>, <<3, 928000>>, <<4, 928000>>, <<5, 928000>>,
   <<21, 928000>>, <<22, 928000>>, <<23, 928000>>, <<24, 928000>>,
   <<32, 870000>>, <<33, 870000>>, <<34, 876000>>, <<35, 876000>>,
   <<36, 876000>>, <<37, 876000>>, <<39, 868000>>, <<40, 868000>>,
   <<41, 869000>>, <<42, 869000>>, <<43, 869000>>, <<48, 928000>>,
   <<49, 928000>>, <<64, 925000>>, <<65, 925000>>, <<80, 923000>>,
   <<81, 923000>>, <<96, 923500>>, <<97, 923500>>, <<112, 2483500>>,
   <<113, 2483500>>, <<128, 924500>>, <<160, 510000>>}

Lookup(table, plan) == CHOOSE row \in table : row[1] = plan
PlanIds == {row[1] : row \in ChannelPlans}
Spacing(plan) == Lookup(ChannelPlans, plan)[2]
Channel0(plan) == Lookup(ChannelPlans, plan)[3]
UpperLimit(plan) == Lookup(FrequencyBands, plan)[2]

-----------------------------------------------------------------------------
\* A PHY mode ID is the PHY type in the upper and the mode in the lower half.
Fsk(modes) == modes \cup {16 + m : m \in modes}
Ofdm(type, modes) == {16 * type + m : m \in modes}
Zeros(n) == [i \in 1 .. n |-> 0]
Row(domain, plan, total, modes, mask) ==
  [domain |-> domain, plan |-> plan, total |-> total, modes |-> modes, mask |-> mask]

\* Domain, channel plan, ValidTotalNumChan, PHY mode IDs, octets of the mask.
SupportedParameters == {
  Row("EU", 32, 62, Fsk({1}), Zeros(6) \o <<128, 225, 230>>),
  Row("EU", 33, 29, Fsk({3, 5}) \cup Ofdm(5, 4 .. 6), <<0, 0, 0, 216, 251>>),
  Row("EU", 34, 55, Fsk({1}), Zeros(6) \o <<128>>),
  Row("EU", 35, 27, Fsk({3, 5}) \cup Ofdm(5, 4 .. 6), <<0, 0, 0, 248>>),
  Row("EU", 36, 118, Fsk({1}), Zeros(6) \o <<128, 225, 6>> \o Zeros(6) \o <<224>>),
  Row("EU", 37, 56, Fsk({3, 5}) \cup Ofdm(5, 4 .. 6), <<0, 0, 0, 216, 3, 0, 0, 192>>),
  Row("NA", 1, 129, Fsk({2, 3}) \cup Ofdm(5, 4 .. 6), Zeros(16) \o <<254>>),
  Row("NA", 2, 64, Fsk({5, 6}) \cup Ofdm(4, 4 .. 6), Zeros(8)),
  Row("NA", 3, 42, Fsk({8}), Zeros(5) \o <<252>>),
  Row("NA", 4, 31, Ofdm(3, 3 .. 6), <<0, 0, 0, 128>>),
  Row("NA", 5, 20, Ofdm(2, 2 .. 6), <<0, 0, 240>>),
  Row("BZ", 1, 78, Fsk({2, 3}) \cup Ofdm(5, 4 .. 6),
      <<0, 192, 255, 255, 255, 255, 255, 255, 1>> \o Zeros(7) \o <<254>>),
  Row("BZ", 2, 37, Fsk({5, 6}) \cup Ofdm(4, 4 .. 6), <<192, 255, 255, 255, 1, 0, 0, 0>>),
  Row("BZ", 3, 24, Fsk({8}), <<240, 255, 63, 0, 0, 252>>),
  Row("BZ", 4, 16, Ofdm(3, 3 .. 6), <<252, 255, 1, 128>>),
  Row("BZ", 5, 10, Ofdm(2, 2 .. 6), <<254, 7, 240>>),
  Row("JP", 21, 29, Fsk({2}) \cup Ofdm(5, 4 .. 6), <<255, 1, 0, 0, 192>>),
  Row("JP", 22, 14, Fsk({4, 5}) \cup Ofdm(4, 4 .. 6), <<15, 0, 252>>),
  Row("JP", 23, 9, Fsk({7, 8}), <<7, 240>>),
  Row("JP", 24, 7, Ofdm(3, 3 .. 6), <<3, 254>>),
  Row("CN", 160, 199, Fsk({2, 3, 5}), Zeros(24) \o <<128>>),
  Row("CN", 128, 16, Fsk({2, 3, 5}), <<0, 0>>),
  Row("IN", 39, 29, Fsk({1}), <<0, 0, 0, 224>>),
  Row("IN", 40, 15, Fsk({3, 5}) \cup Ofdm(5, 4 .. 6), <<0, 128>>),
  Row("SG", 41, 29, Fsk({1}), <<0, 0, 0, 224>>),
  Row("SG", 42, 15, Fsk({3, 5}) \cup Ofdm(5, 4 .. 6), <<0, 128>>),
  Row("SG", 43, 7, Fsk({6, 8}), <<128>>),
  Row("SG", 64, 24, Fsk({2, 3}), <<0, 0, 0>>),
  Row("SG", 65, 12, Fsk({5, 6, 8}), <<0, 240>>),
  Row("MX", 1, 129, Fsk({2, 3}), Zeros(16) \o <<254>>),
  Row("MX", 2, 64, Fsk({5, 6, 8}), Zeros(8)),
  Row("AU/NZ", 48, 64, Fsk({2, 3}), Zeros(8)),
  Row("AU/NZ", 49, 32, Fsk({5, 6, 8}), Zeros(4)),
  Row("KR", 96, 32, Fsk({2, 3}), Zeros(4)),
  Row("KR", 97, 16, Fsk({5, 6, 8}), <<0, 0>>),
  Row("PH", 48, 14, Fsk({2, 3}), <<0, 192, 255, 255, 255, 255, 255, 255>>),
  Row("PH", 49, 7, Fsk({5, 6, 8}), <<128, 255, 255, 255>>),
  Row("MY", 80, 19, Fsk({2, 3}), <<0, 0, 248>>),
  Row("MY", 81, 10, Fsk({5, 6, 8}), <<0, 252>>),
  Row("HK", 64, 24, Fsk({2, 3}), <<0, 0, 0>>),
  Row("HK", 65, 12, Fsk({5, 6, 8}), <<0, 240>>),
  Row("TH", 64, 24, Fsk({2, 3}), <<0, 0, 0>>),
  Row("TH", 65, 12, Fsk({5, 6, 8}), <<0, 240>>),
  Row("VN", 64, 24, Fsk({2, 3}), <<0, 0, 0>>),
  Row("VN", 65, 12, Fsk({5, 6, 8}), <<0, 240>>),
  Row("WW", 112, 416, Fsk({2, 3}), Zeros(52)),
  Row("WW", 113, 207, Fsk({5, 6, 8}), Zeros(25) \o <<128>>)}

IsSupported(domain, plan) ==
  \E row \in SupportedParameters : row.domain = domain /\ row.plan = plan
Parameters(domain, plan) ==
  CHOOSE row \in SupportedParameters : row.domain = domain /\ row.plan = plan
=============================================================================
