---------------------------- MODULE SnifferSetup ----------------------------
(***************************************************************************)
(* How a sniffer application gets from its command line to its receivers:  *)
(* the configurations it asks for (configuration.py), sample rate and      *)
(* center frequency (multi_channel_sniffer.py and the applications), and   *)
(* the channel receivers (multi_channel_receiver.py and                    *)
(* single_channel_receiver.py).                                            *)
(*                                                                         *)
(* Three applications differ in how they tune: "single" receives one       *)
(* channel, "multi" (with or without GUI) the channels of one mode, and    *)
(* "modes" all channels of several modes, tuned as its command line says.  *)
(*                                                                         *)
(* Frequencies are in kHz.  Definitions named Op_fault are seeded faults   *)
(* of Op, used by no action.                                               *)
(***************************************************************************)
EXTENDS WiSunParameters, Channelizer, FiniteSetsExt

CONSTANT CommandLines   \* [app, domain, modes, channels, maskOnly, oversampling,
                        \*  rate, center, dump], modes a sequence of [plan, type, mode]

\* Command lines that the options can spell: several modes (at least one, or the
\* program says so and exits) with a rate, a center and a file for its flow graph for
\* one application only, one mode for the others; one channel, which is never missing,
\* for the single-channel sniffer.  Rates, centers and oversampling are those of a
\* receiver that exists, that is, positive: the applications do not check this.
ASSUME CommandLineTypes ==
  \A line \in CommandLines :
    /\ line.app \in {"single", "multi", "modes"}
    /\ line.modes \in Seq([plan : Int, type : Int, mode : Int]) /\ line.modes # <<>>
    /\ line.app # "modes" => Len(line.modes) = 1 /\ ~line.dump
    /\ line.app = "modes" => line.rate \in Nat \ {0} /\ line.center \in Nat
    /\ line.app = "single" => line.channels # {}
    /\ line.channels \in SUBSET Int
    /\ line.oversampling \in Nat \ {0}
    /\ line.maskOnly \in BOOLEAN /\ line.dump \in BOOLEAN

VARIABLES
  command,     \* the command line
  stage,       \* what the program does next
  status,      \* how it ended, "none" before
  configs,     \* the configurations built
  tuner,       \* sample rate and center frequency of the receiver
  receivers    \* for each configuration its channel receivers

setupVars == <<configs, tuner, receivers>>

InitSetup ==
  /\ configs = <<>>
  /\ tuner = [rate |-> 0, center |-> 0]
  /\ receivers = <<>>

\* Exit with an error message, or with an exception nobody catches.
End(how) == stage' = "ended" /\ status' = how

-----------------------------------------------------------------------------
(* configuration.py                                                         *)

PhyModeId(m) == 16 * m.type + m.mode
PhyType(id) == id \div 16
PhyMode(id) == id % 16
IsFsk(id) == PhyType(id) \in {0, 1}
IsOfdm(id) == PhyType(id) \in {2, 3, 4, 5}
UsesFec(id) == PhyType(id) = 1

\* A channel is enabled if the mask has a bit for it, and it is zero.
InMask(channel, mask) ==
  /\ channel \div 8 < Len(mask)
  /\ LET octet == mask[channel \div 8 + 1] IN (octet \div 2^(channel % 8)) % 2 = 0

ChannelFrequency(plan, channel) == Channel0(plan) + channel * Spacing(plan)

PlanChannels(plan, mask) ==
  {c \in 0 .. 8 * Len(mask) - 1 : ChannelFrequency(plan, c) <= UpperLimit(plan)}

MaskChannels(plan, mask) == {c \in PlanChannels(plan, mask) : InMask(c, mask)}

\* The tables agree with each other: masks are octets, and each leaves as many
\* channels of its plan as the standard counts
\* (test_plan_channels_leave_valid_total_num_chan).
ASSUME TablesAgree ==
  \A row \in SupportedParameters :
    /\ row.domain \in Domains /\ row.plan \in PlanIds
    /\ row.mask \in Seq(0 .. 255)
    /\ Cardinality(MaskChannels(row.plan, row.mask)) = row.total

\* WiSunConfiguration.__init__ raises one of its exceptions.
Rejected(m) ==
  LET id == PhyModeId(m)
  IN  \/ command.domain \notin Domains
      \/ m.plan \notin PlanIds
      \/ PhyType(id) \notin PhyTypes
      \/ IsFsk(id) /\ PhyMode(id) \notin DOMAIN PhyModesFsk
      \/ IsOfdm(id) /\ PhyMode(id) \notin PhyModesOfdm
      \/ ~IsSupported(command.domain, m.plan)
      \/ /\ IsSupported(command.domain, m.plan)
         /\ LET row == Parameters(command.domain, m.plan)
            IN
             \/ id \notin row.modes
             \/ \E c \in command.channels :
                  \/ c \notin PlanChannels(m.plan, row.mask)
                  \/ command.maskOnly /\ ~InMask(c, row.mask)

\* channels
ActiveChannels(plan, mask) ==
  IF command.channels # {} THEN command.channels
  ELSE IF command.maskOnly THEN MaskChannels(plan, mask)
  ELSE PlanChannels(plan, mask)

\* The IEEE 802.15.4 PHY type and mode with this rate, index and spacing, if any.
PhyLabel_anySpacing(phy, spacing) ==
  {<<p.type, p.mode>> :
     p \in {q \in PhyModes : q.rate = 10 * phy.rate /\ q.index = phy.index}}
PhyLabel(phy, spacing) ==
  {<<p.type, p.mode>> :
     p \in {q \in PhyModes : /\ q.rate = 10 * phy.rate /\ q.index = phy.index
                             /\ q.spacing = 10 * spacing}}

\* What the configuration and its radio_configuration are asked for later on.
Configuration(m) ==
  LET mask == Parameters(command.domain, m.plan).mask
      id == PhyModeId(m)
      channels == ActiveChannels(m.plan, mask)
  IN  [plan |-> m.plan, channels |-> channels,
       outside |-> {c \in channels : ~InMask(c, mask)},
       symbolRate |-> PhyModesFsk[PhyMode(id)].rate,
       fec |-> UsesFec(id),
       label |-> PhyLabel(PhyModesFsk[PhyMode(id)], Spacing(m.plan))]

-----------------------------------------------------------------------------
(* build_configuration, called for one mode after the other                 *)

NextMode == command.modes[Len(configs) + 1]

RejectMode ==
  /\ stage = "configuring"
  /\ Rejected(NextMode)
  /\ End("rejected")
  /\ UNCHANGED <<command, setupVars>>

\* An OFDM mode that is supported: its radio configuration is printed before
\* OFDM is rejected, and asking for its modulation raises.
DescribeOfdm ==
  /\ stage = "configuring"
  /\ ~Rejected(NextMode)
  /\ IsOfdm(PhyModeId(NextMode))
  /\ End("crashed")
  /\ UNCHANGED <<command, setupVars>>

ConfigureMode ==
  /\ stage = "configuring"
  /\ ~Rejected(NextMode)
  /\ ~IsOfdm(PhyModeId(NextMode))
  /\ configs' = Append(configs, Configuration(NextMode))
  /\ stage' = IF Len(configs') = Len(command.modes) THEN "tuning" ELSE stage
  /\ UNCHANGED <<command, status, tuner, receivers>>

-----------------------------------------------------------------------------
(* Tuning                                                                   *)

\* MultiChannelSniffer: a band of whole channels around the ones asked for.
TuneMulti ==
  /\ stage = "tuning" /\ command.app = "multi"
  /\ LET c == configs[1]
         lowest == Min(c.channels)
         highest == Max(c.channels)
     IN  tuner' = [rate |-> OutputCount(lowest, highest) * Spacing(c.plan),
                   center |-> ChannelFrequency(c.plan, Middle(lowest, highest))]
  /\ stage' = "building"
  /\ UNCHANGED <<command, status, configs, receivers>>

\* The multi-mode sniffer opens its output before it builds its receivers.
TuneModes ==
  /\ stage = "tuning" /\ command.app = "modes"
  /\ tuner' = [rate |-> command.rate, center |-> command.center]
  /\ stage' = "opening"
  /\ UNCHANGED <<command, status, configs, receivers>>

\* The single-channel sniffer: a fixed rate, away from the tuner's DC.
RxOffset == 300
SingleRate == 2400
Decimation_fixed(symbolRate) == 4
Decimation(symbolRate) ==
  IF symbolRate <= 100 THEN 4 ELSE IF symbolRate <= 200 THEN 2 ELSE 1
SingleChannel == CHOOSE c \in configs[1].channels : TRUE
IsWhole(rate, divisor) == rate % divisor = 0

TuneSingle ==
  /\ stage = "tuning" /\ command.app = "single"
  /\ LET c == configs[1]
     IN  IF IsWhole(SingleRate, Decimation(c.symbolRate) * c.symbolRate)
         THEN /\ tuner' = [rate |-> SingleRate,
                           center |-> ChannelFrequency(c.plan, SingleChannel) - RxOffset]
              /\ stage' = "building"
              /\ UNCHANGED status
         ELSE End("rejected") /\ UNCHANGED tuner
  /\ UNCHANGED <<command, configs, receivers>>

-----------------------------------------------------------------------------
(* Receivers                                                                *)

NextConfig == configs[Len(receivers) + 1]

\* All built: the multi-mode sniffer has its output open by then.
AfterBuilding ==
  IF Len(receivers') < Len(configs) THEN stage
  ELSE IF command.app = "modes" THEN "connected" ELSE "opening"

\* single_channel_receiver with the metadata of the application: it is given no
\* outside_channel_mask.
BuildSingle ==
  /\ stage = "building" /\ command.app = "single"
  /\ LET c == NextConfig
     IN  IF tuner.rate >= Spacing(c.plan) /\ 2 * RxOffset + Spacing(c.plan) <= tuner.rate
         THEN /\ receivers' = Append(receivers,
                   {[output |-> 0, number |-> SingleChannel, outside |-> FALSE,
                     samples |-> tuner.rate \div (Decimation(c.symbolRate) * c.symbolRate)]})
              /\ stage' = AfterBuilding
              /\ UNCHANGED status
         ELSE End("crashed") /\ UNCHANGED receivers
  /\ UNCHANGED <<command, configs, tuner>>

\* multi_channel_receiver: the channel at output k of n.
OutputChannel(c, k, n) ==
  WiSunChannel(PfbFrequency(k, n, tuner.center, Spacing(c.plan)),
               Channel0(c.plan), Spacing(c.plan))

\* The asserts in front of the loop.
Receivable(c) ==
  /\ IsWhole(tuner.rate, Spacing(c.plan))
  /\ IsWhole(Channel0(c.plan) - tuner.center, Spacing(c.plan))
  /\ IsWhole(Spacing(c.plan), c.symbolRate)
  /\ IsWhole(tuner.rate \div Spacing(c.plan), command.oversampling)
  /\ IsWhole(command.oversampling * Spacing(c.plan), c.symbolRate)

SamplesPerSymbol(c) == (command.oversampling * Spacing(c.plan)) \div c.symbolRate

\* The loop: the outputs that are active channels.
ActiveOutputs(c) ==
  LET n == tuner.rate \div Spacing(c.plan)
  IN  {p \in {<<k, OutputChannel(c, k, n)>> : k \in 0 .. n - 1} : p[2] \in c.channels}

\* A receiver for each of them.  The metadata are one dictionary for all, which
\* each receiver reads while it is constructed.
ChannelReceivers_lateMetadata(c) ==
  LET last == CHOOSE p \in ActiveOutputs(c) : \A q \in ActiveOutputs(c) : q[1] <= p[1]
  IN  {[output |-> p[1], number |-> last[2], outside |-> p[2] \in c.outside,
        samples |-> SamplesPerSymbol(c)] : p \in ActiveOutputs(c)}
ChannelReceivers(c) ==
  {[output |-> p[1], number |-> p[2], outside |-> p[2] \in c.outside,
    samples |-> SamplesPerSymbol(c)] : p \in ActiveOutputs(c)}

\* The last assert: no active channel is left without a receiver.
BuildMulti_unchecked ==
  /\ stage = "building" /\ command.app \in {"multi", "modes"}
  /\ Receivable(NextConfig)
  /\ receivers' = Append(receivers, ChannelReceivers(NextConfig))
  /\ stage' = AfterBuilding
  /\ UNCHANGED <<command, status, configs, tuner>>
BuildMulti ==
  /\ stage = "building" /\ command.app \in {"multi", "modes"}
  /\ Receivable(NextConfig)
  /\ IF {p[2] : p \in ActiveOutputs(NextConfig)} = NextConfig.channels
     THEN /\ receivers' = Append(receivers, ChannelReceivers(NextConfig))
          /\ stage' = AfterBuilding
          /\ UNCHANGED status
     ELSE End("crashed") /\ UNCHANGED receivers
  /\ UNCHANGED <<command, configs, tuner>>

FailAssertion ==
  /\ stage = "building" /\ command.app \in {"multi", "modes"}
  /\ ~Receivable(NextConfig)
  /\ End("crashed")
  /\ UNCHANGED <<command, setupVars>>

Setup ==
  \/ RejectMode \/ DescribeOfdm \/ ConfigureMode
  \/ TuneSingle \/ TuneMulti \/ TuneModes
  \/ BuildSingle \/ BuildMulti \/ FailAssertion

-----------------------------------------------------------------------------
(* Properties                                                               *)

Receiver == [output : Nat, number : Nat, outside : BOOLEAN, samples : Nat \ {0}]
SetupTypeOK ==
  /\ Len(configs) <= Len(command.modes)
  /\ \A i \in DOMAIN configs :
       configs[i].channels # {} /\ Cardinality(configs[i].label) <= 1
  /\ tuner \in [rate : Nat, center : Nat]
  /\ Len(receivers) <= Len(configs)
  /\ \A i \in DOMAIN receivers : receivers[i] \subseteq Receiver

\* Who hears a frequency, from how sampling folds the spectrum: what is inside the
\* sampled band and k channels above the center, up to a multiple of the sample
\* rate, comes out at the output k.
Hearing(built, frequency, spacing) ==
  LET offset == frequency - tuner.center
      folded == offset % tuner.rate
  IN  IF -tuner.rate < 2 * offset /\ 2 * offset < tuner.rate
      THEN {r \in built : r.output * spacing = folded} ELSE {}

\* The receivers that have just been built; they never change again.
JustBuilt ==
  IF stage \in {"building", "opening", "connected"} /\ receivers # <<>>
  THEN {Len(receivers)} ELSE {}

\* A multi-channel receiver that is built has for every active channel exactly
\* one channel receiver that hears it, which puts that channel's number on its
\* frames and reports it as outside the mask if it is; and it has no others
\* (multi_channel_receiver.py:106-149, util.py:19-47).
ChannelsReceived ==
  command.app # "single" =>
    \A i \in JustBuilt :
      LET c == configs[i]
          spacing == Spacing(c.plan)
          mask == Parameters(command.domain, c.plan).mask
      IN  /\ \A ch \in c.channels :
               LET hearing == Hearing(receivers[i], ChannelFrequency(c.plan, ch), spacing)
               IN  /\ Cardinality(hearing) = 1
                   /\ \A r \in hearing :
                        /\ r.number = ch
                        /\ r.outside <=> ~InMask(ch, mask)
                        /\ command.maskOnly => ~r.outside
          /\ Cardinality(receivers[i]) = Cardinality(c.channels)

\* The band the multi-channel sniffer plans always holds every channel asked
\* for: what is left to fail are modes whose channel spacing is no multiple of
\* the symbol rate, and an oversampling that does not divide the outputs, which
\* are even in number (multi_channel_sniffer.py:56-67).
PlanHolds ==
  (command.app = "multi" /\ tuner.rate > 0 /\ status = "crashed") =>
    LET c == configs[1]
    IN  \/ Spacing(c.plan) % c.symbolRate # 0
        \/ command.oversampling > 2
             /\ (tuner.rate \div Spacing(c.plan)) % command.oversampling # 0

\* The multi-mode sniffer is set up exactly if what README.md:282-288 demands
\* holds for every mode, with the two conditions that it leaves out.
Covers(c) ==
  /\ tuner.rate % Spacing(c.plan) = 0
  /\ (tuner.center - Channel0(c.plan)) % Spacing(c.plan) = 0
  /\ \A ch \in c.channels :
       LET offset == ChannelFrequency(c.plan, ch) - tuner.center
       IN  -tuner.rate < 2 * offset /\ 2 * offset < tuner.rate
  /\ Spacing(c.plan) % c.symbolRate = 0
  /\ (tuner.rate \div Spacing(c.plan)) % command.oversampling = 0
ModesNeedConditions ==
  (command.app = "modes" /\ tuner.rate > 0) =>
    /\ \A i \in JustBuilt : Covers(configs[i])
    /\ (status = "crashed" /\ Len(receivers) < Len(configs)) => ~Covers(NextConfig)

\* The single-channel sniffer can receive every FSK mode there is: its samples
\* per symbol come out whole, and what is left of the sample rate behind the
\* filter holds the channel (gr-wisun-single-channel-sniffer:44-55).
SingleAlwaysFits ==
  (command.app = "single" /\ configs # <<>>) =>
    /\ status \notin {"rejected", "crashed"}
    /\ \A i \in DOMAIN receivers :
         LET c == configs[i]
             rate == tuner.rate \div Decimation(c.symbolRate)
         IN  \A r \in receivers[i] :
               /\ r.samples * c.symbolRate = rate
               /\ r.samples > 2
               /\ rate >= Spacing(c.plan)

\* A mode that build_configuration does not accept ends the program with an error
\* message: OFDM modes are rejected there, they describe themselves perfectly well
\* (cli.py:153-154).
OfdmRejected == Len(configs) < Len(command.modes) => status # "crashed"

\* Samples per symbol of a multi-channel receiver are 2, times the oversampling,
\* for every FSK mode in every regulatory domain.
TwoSamplesPerSymbol ==
  command.app = "multi" =>
    \A i \in DOMAIN configs :
      Spacing(configs[i].plan) = 2 * configs[i].symbolRate
=============================================================================
