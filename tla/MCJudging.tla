------------------------------ MODULE MCJudging ------------------------------
(***************************************************************************)
(* A small instance of Judging: for each control type the messages that    *)
(* meet its rules and the ones that just miss them.                        *)
(***************************************************************************)
EXTENDS Judging

Power(start, end) == PowerRange(start, end, Symmetric)
Electric == <<"ELECTRICITY">>
Starts == "t"

(***************************************************************************)
(* Fill rate based: two actuators that call a timer by one name, one of    *)
(* them left for emergencies only; a description that replaces theirs; one *)
(* with a gap between its bands.                                           *)
(***************************************************************************)
Band(start, end, rate, power) ==
  FrbcElement(NumberRange(start, end), NumberRange(0, rate), <<power>>, Absent)

FrbcOff == FrbcMode("off", <<Band(0, 2, 0, Power(0, 0)), Band(2, 4, -2, Power(0, 0))>>, FALSE)
FrbcHeat == FrbcMode("heat", <<Band(0, 2, 2, Power(4, 0))>>, FALSE)
FrbcBoost == FrbcMode("boost", <<Band(0, 4, 2, Power(0, 4))>>, TRUE)
FrbcGap == FrbcMode("off", <<Band(0, 1, 0, Power(0, 0)), Band(3, 4, 0, Power(0, 0))>>, FALSE)

FrbcMoves ==
  <<Transition("up", "off", "heat", <<Starts>>, <<Starts>>, FALSE),
    Transition("down", "heat", "off", <<>>, <<>>, TRUE)>>

Heater(id) == Actuator(id, Electric, <<FrbcOff, FrbcHeat>>, FrbcMoves, <<Timer(Starts, 1)>>)

FrbcHeaters(from) ==
  FrbcSystemDescription("f1", from, <<Heater("a1"), Heater("a2")>>,
                        Storage(NumberRange(0, 4), TRUE, FALSE, FALSE))
FrbcBooster(id, modes) ==
  FrbcSystemDescription(id, 0, <<Actuator("a1", Electric, modes, <<>>, <<>>)>>,
                        Storage(NumberRange(0, 4), FALSE, TRUE, TRUE))

FrbcMessages ==
  {FrbcHeaters(0), FrbcHeaters(1), FrbcBooster("f2", <<FrbcOff, FrbcBoost>>), FrbcBooster("f3", <<FrbcGap>>)}
    \cup {FrbcStorageStatus(level) : level \in {1, 3, NotFinite}}
    \cup {FrbcActuatorStatus(x[1], x[2], 0, Absent, Absent) :
            x \in {<<"a1", "off">>, <<"a1", "heat">>, <<"a1", "boost">>}}
    \cup {TimerStatus("FrbcTimerStatus", x[1], Starts, x[2]) : x \in {<<"a1", 1>>, <<"a2", 2>>}}
    \cup {FrbcLeakageBehaviour(0, <<LeakageElement(NumberRange(0, 4), 1)>>),
          FrbcUsageForecast(0, <<RateElement(1, Expected(1))>>),
          FrbcFillLevelTargetProfile(0, <<TargetElement(1, NumberRange(4, 4))>>)}
    \cup {ModeInstruction("FrbcInstruction", "i1", x[1], x[2], x[3], 0, x[4]) :
            x \in {<<"a1", "off", 1, FALSE>>, <<"a1", "heat", 2, FALSE>>, <<"a1", "off", 0, TRUE>>,
                   <<"a2", "heat", 1, FALSE>>, <<"a1", "heat", 3, FALSE>>, <<"a1", "boost", 1, FALSE>>,
                   <<"a3", "off", 1, FALSE>>}}
    \cup {RevokeObject("FrbcSystemDescription", "f1"), RevokeObject("FrbcSystemDescription", "o1")}

(***************************************************************************)
(* Operation mode based: the life of two instructions.                     *)
(***************************************************************************)
OmbcModes ==
  <<OmbcMode("off", <<Power(0, 0)>>, Absent, FALSE),
    OmbcMode("on", <<Power(0, 4)>>, NumberRange(0, 2), FALSE)>>

OmbcMoves ==
  <<Transition("up", "off", "on", <<Starts>>, <<Starts>>, FALSE),
    Transition("down", "on", "off", <<>>, <<>>, FALSE)>>

OmbcMachine(from) ==
  OmbcSystemDescription("o1", from, OmbcModes, OmbcMoves, <<Timer(Starts, 1)>>)

OmbcMessages ==
  {OmbcMachine(from) : from \in {0, 1}}
    \cup {OmbcStatus(mode, 0, Absent, Absent) : mode \in {"off", "on", "none"}}
    \cup {TimerStatus("OmbcTimerStatus", Nil, Starts, 1)}
    \cup {ModeInstruction("OmbcInstruction", x[1], Nil, x[2], x[3], 0, FALSE) :
            x \in {<<"i1", "on", 1>>, <<"i2", "off", 2>>, <<"i1", "on", 3>>, <<"i1", "none", 1>>}}
    \cup {InstructionStatusUpdate("i1", status, 0) : status \in {"ACCEPTED", "SUCCEEDED"}}
    \cup {RevokeObject("OmbcInstruction", "i1"), RevokeObject("OmbcSystemDescription", "o1")}

(***************************************************************************)
(* Demand driven: a mode whose supply falls with its factor.               *)
(***************************************************************************)
Supplying(id, supply) == DdbcMode(id, <<Power(0, 4)>>, supply, Absent, FALSE)

DdbcPump(from, demand) ==
  DdbcSystemDescription("d1", from,
     <<Actuator("a1", Electric, <<Supplying("off", NumberRange(0, 0)), Supplying("run", NumberRange(4, 2))>>,
                <<Transition("up", "off", "run", <<Starts>>, <<Starts>>, TRUE)>>, <<Timer(Starts, 1)>>)>>,
     demand, FALSE)

DdbcMessages ==
  {DdbcPump(from, demand) : from \in {0, 1}, demand \in {Absent, NumberRange(0, 1)}}
    \cup {DdbcActuatorStatus(x[1], x[2], 0, Absent, Absent) :
            x \in {<<"a1", "off">>, <<"a1", "run">>, <<"a1", "none">>, <<"a2", "off">>}}
    \cup {TimerStatus("DdbcTimerStatus", "a1", Starts, 1),
          DdbcPresentDemandStatus(NumberRange(1, 0)),
          DdbcAverageDemandRateForecast(0, <<RateElement(1, Expected(1))>>)}
    \cup {ModeInstruction("DdbcInstruction", "i1", "a1", x[1], x[2], 0, FALSE) :
            x \in {<<"off", 0>>, <<"run", 0>>, <<"run", 1>>, <<"run", 2>>, <<"run", 3>>, <<"none", 0>>}}
    \cup {RevokeObject("DdbcSystemDescription", "d1")}

(***************************************************************************)
(* Power envelopes: constraints with a range for emergencies, and some     *)
(* that expire.                                                            *)
(***************************************************************************)
Allowing(id, from, until, highest) ==
  PebcPowerConstraints(id, from, until,
    <<AllowedLimitRange(Symmetric, "LOWER_LIMIT", NumberRange(-2, 0), FALSE),
      AllowedLimitRange(Symmetric, "UPPER_LIMIT", NumberRange(0, 2), FALSE),
      AllowedLimitRange(Symmetric, "UPPER_LIMIT", NumberRange(2, highest), TRUE)>>)

Limiting(id, constraints, at, abnormal, upper) ==
  PebcInstruction(id, constraints, at, abnormal,
    <<Envelope(Symmetric, <<EnvelopeElement(1, -1, upper), EnvelopeElement(2, 0, 1)>>)>>)

PebcMessages ==
  {Allowing("c1", 0, Absent, 4), Allowing("c1", 0, 1, 3), Allowing("c2", 1, Absent, 4),
   Allowing("c2", 1, 0, 4), PebcEnergyConstraint("e1", 0, 1, 0, 2), PebcEnergyConstraint("e1", 0, 1, 2, 0)}
    \cup {Limiting(x[1], x[2], x[3], x[4], x[5]) :
            x \in {<<"i1", "c1", 0, FALSE, 2>>, <<"i1", "c1", 1, FALSE, 3>>, <<"i2", "c1", 1, TRUE, 4>>,
                   <<"i2", "c2", 0, FALSE, -2>>, <<"i1", "c2", 3, TRUE, 3>>, <<"i1", "c1", 0, FALSE, 5>>}}
    \cup {RevokeObject("PebcPowerConstraints", "c1"), RevokeObject("PebcEnergyConstraint", "e1")}

(***************************************************************************)
(* Power profiles: two containers in a window that takes the shorter       *)
(* sequences, that takes no choice of them, or that takes one with a       *)
(* longest pause.                                                          *)
(***************************************************************************)
Run(id, duration, pause) ==
  PowerSequence(id, <<ForecastElement(duration, <<ForecastValue(Symmetric, Expected(1))>>)>>,
                id = "long", pause, FALSE)

Profiled(id, end, containers) == PpbcPowerProfileDefinition(id, 0, end, containers)

Wash == Container("wash", <<Run("short", 1, Absent), Run("long", 3, Absent)>>)
Spin == Container("spin", <<Run("short", 2, Absent)>>)
SpinSoon == Container("spin", <<Run("short", 1, 1)>>)

PpbcMessages ==
  {Profiled("p1", 4, <<Wash, Spin>>), Profiled("p2", 4, <<Spin, Spin>>),
   Profiled("p2", 2, <<Wash, Spin>>), Profiled("p1", 4, <<Wash, SpinSoon>>),
   Profiled("p3", 0, <<Wash>>),
   PpbcPowerProfileStatus(<<ContainerStatus("p1", "wash", "short", Absent, "SCHEDULED")>>)}
    \cup {PpbcInstruction(x[1], "i1", x[2], x[3], x[4], 0, FALSE) :
            x \in {<<"PpbcScheduleInstruction", "p1", "wash", "short">>,
                   <<"PpbcScheduleInstruction", "p1", "spin", "long">>,
                   <<"PpbcStartInterruptionInstruction", "p1", "wash", "short">>,
                   <<"PpbcEndInterruptionInstruction", "p1", "wash", "long">>}}
    \cup {RevokeObject("PpbcPowerProfileDefinition", p) : p \in {"p1", "p2"}}

(***************************************************************************)
(* What is not of a control type.                                          *)
(***************************************************************************)
Details(measured, forecasts, currency) ==
  ResourceManagerDetails(<<ResourceRole("ENERGY_CONSUMER", "ELECTRICITY")>>,
                         <<"PEBC", "PPBC", "OMBC", "FRBC", "DDBC">>, measured, forecasts, currency)

TheDetails == Details(<<Symmetric>>, TRUE, "EUR")

CommonMessages ==
  {Handshake("CEM", Absent), Handshake("RM", Absent), SelectControlType("FRBC"),
   PowerMeasurement(0, <<PowerValue(Symmetric, 1)>>),
   PowerMeasurement(2, <<PowerValue("OIL.FLOW_RATE", NotFinite)>>),
   PowerForecast(0, <<ForecastElement(1, <<ForecastValue(Symmetric, Expected(1))>>)>>)}

AllMessages ==
  [FRBC |-> FrbcMessages \cup CommonMessages,
   OMBC |-> OmbcMessages \cup CommonMessages,
   DDBC |-> DdbcMessages \cup CommonMessages
              \cup {Details(<<Symmetric, "ELECTRIC.POWER.L1">>, FALSE, Absent)},
   PEBC |-> PebcMessages \cup CommonMessages,
   PPBC |-> PpbcMessages \cup CommonMessages]

TheDescriptions ==
  [f1 |-> FrbcHeaters(0), f2 |-> FrbcBooster("f2", <<FrbcOff, FrbcBoost>>),
   f3 |-> FrbcBooster("f3", <<FrbcGap>>), o1 |-> OmbcMachine(0), d1 |-> DdbcPump(0, Absent)]
=============================================================================
