-------------------------- MODULE MCSnifferProcess --------------------------
(* Command lines to try SnifferProcess with. *)
EXTENDS SnifferProcess

Line(app, domain, modes, channels, maskOnly, oversampling) ==
  [app |-> app, domain |-> domain, modes |-> modes, channels |-> channels,
   maskOnly |-> maskOnly, oversampling |-> oversampling,
   rate |-> 0, center |-> 0, dump |-> FALSE]

Mode(plan, id) == [plan |-> plan, type |-> id \div 16, mode |-> id % 16]

\* The FSK modes without FEC, and one with: FEC changes neither rate nor channels.
FskModes(row) ==
  LET plain == {id \in row.modes : PhyType(id) = 0}
  IN  plain \cup {16 + Min(plain) : id \in plain}

\* No list, the two ends, a gap, channels the mask excludes and one beyond the plan.
ChannelLists(row) ==
  LET plan == PlanChannels(row.plan, row.mask)
      last == Max(plan)
      masked == {c \in plan : ~InMask(c, row.mask)}
  IN  {{}, {0}, {last}, {1, 4}, {0, last}, {last + 1}}
        \cup (IF masked = {} THEN {} ELSE {{0, Min(masked)}, {Max(masked)}})

\* Every FSK mode of every domain and plan on the default oversampling, received
\* on all kinds of channels.
MultiLines ==
  UNION {{Line("multi", row.domain, <<Mode(row.plan, id)>>, channels, maskOnly, 2) :
            id \in FskModes(row), channels \in ChannelLists(row), maskOnly \in BOOLEAN} :
         row \in SupportedParameters}

\* Other oversamplings, one symbol rate and one with FEC.
OversampledLines ==
  UNION {{Line("multi", row.domain, <<Mode(row.plan, id)>>, channels, FALSE, o) :
            id \in {Min(row.modes)}, channels \in {{0}, {0, 2}, {1, 4}}, o \in {1, 4}} :
         row \in {r \in SupportedParameters : FskModes(r) # {}}}

SingleLines ==
  UNION {{Line("single", row.domain, <<Mode(row.plan, id)>>, {channel}, maskOnly, 1) :
            id \in FskModes(row), channel \in {0, 6, 200}, maskOnly \in BOOLEAN} :
         row \in SupportedParameters}

\* Everything that WiSunConfiguration rejects, and modes of OFDM.
OddLines ==
  {Line("multi", d, <<[plan |-> p, type |-> t, mode |-> m]>>, {}, FALSE, 2) :
     d \in {"EU", "NA", "XX"}, p \in {1, 4, 32, 33, 38}, t \in {0, 1, 3, 5, 6},
     m \in {0, 1, 3, 4, 7, 9}}

\* Several modes at one sample rate and center frequency (README: 8 MHz, 866.1 MHz).
ModesLines ==
  {[app |-> "modes", domain |-> "EU", modes |-> modes, channels |-> {},
    maskOnly |-> maskOnly, oversampling |-> o, rate |-> rate, center |-> center,
    dump |-> dump] :
     modes \in {<<Mode(32, 1)>>, <<Mode(33, 3), Mode(32, 17)>>,
                <<Mode(32, 1), Mode(33, 5)>>, <<Mode(33, 19), Mode(38, 1)>>},
     maskOnly \in BOOLEAN, o \in {1, 2, 4}, dump \in BOOLEAN,
     rate \in {6600, 7000, 8000, 8050}, center \in {866100, 866150, 866500}}

McLines == MultiLines \cup OversampledLines \cup SingleLines \cup OddLines \cup ModesLines

McOfdmLines == OddLines
McMultiLines == MultiLines
=============================================================================
