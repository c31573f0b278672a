------------------------------ MODULE Estadio ------------------------------
(***************************************************************************)
(* The stadium program, scratch/estadio.cc: main sets up one generator of  *)
(* traffic per fan (torcedor) on the server, samples the flow monitor      *)
(* every simulated second, stops the simulation at simTime, prints the     *)
(* metrics and writes the XML file.                                        *)
(*                                                                         *)
(* Composed with FlowMonitor: the generators send its packets, and the     *)
(* samples and the final reports read its statistics.  The flow id of a    *)
(* fan is the number of fans set up before.  Times are in centiseconds.    *)
(*                                                                         *)
(* Abstracted: where towers and fans stand, addresses, radio and cables    *)
(* (FlowMonitor's network), the lengths of the on and off periods of a     *)
(* generator, and the quotients computed from the totals.                  *)
(***************************************************************************)
EXTENDS FlowMonitor

CONSTANT SimTimes   \* the values of the option --tempo, in centiseconds

\* A fan's number is that of its port, of 16 bits, less 9000.
LastFan == 65535 - 9000

\* The program does not come to its event loop with --tempo=3, whose fmod is
\* not a number, or with less than half a second, whose stop times are negative.
ASSUME EstadioAssumption ==
  /\ Flows \subseteq 0 .. LastFan
  /\ SimTimes \subseteq Nat /\ \A s \in SimTimes : s >= 50 /\ s # 300

\* Every event lies on the grid of the model's clock.
ASSUME GridAssumption ==
  \A t \in Flows \cup SimTimes \cup {50, CheckInterval} : t % Step = 0

VARIABLES
  simTime,
  fase,        \* where main is: in Run, before the metrics, the XML, or done
  aIniciar,    \* the generators whose StartApplication is scheduled
  aParar,      \* those whose StopApplication is scheduled
  ligados,     \* those that have a socket, not closed
  amostra,     \* when AmostraMetricas runs next, or Never
  linhas,      \* history: when it printed a line
  totais,      \* the totals of its last line
  metricas,    \* the totals main prints and appends to the CSV file
  xml          \* the totals of the XML file

programVars == <<simTime, fase, aIniciar, aParar, ligados, amostra, linhas,
                 totais, metricas, xml>>
vars == <<monitorVars, programVars>>

-----------------------------------------------------------------------------
Segundo == 100

\* C's fmod, for a positive dividend.
Fmod(x, y) == x % (IF y < 0 THEN -y ELSE y)

\* Mutant: the start times are not folded.
InicioSemFmod(u) == Segundo + u

\* Mutant: they are folded only where they would exceed simTime.
InicioSemMargem(u) == LET t == Segundo + u IN
                      IF t > simTime
                      THEN Segundo + Fmod(u, simTime - 3 * Segundo)
                      ELSE t

\* When the generator of fan u starts, and when all of them stop.
Inicio(u) == LET t == Segundo + u IN
             IF t > simTime - 2 * Segundo
             THEN Segundo + Fmod(u, simTime - 3 * Segundo)
             ELSE t
Fim == simTime - 50

\* What AmostraMetricas, main and the XML file add up.
Soma(stats) ==
  [pacEnviados   |-> MapThenSumSet(LAMBDA f : stats[f].txPackets, Flows),
   pacRecebidos  |-> MapThenSumSet(LAMBDA f : stats[f].rxPackets, Flows),
   pacPerdidos   |-> MapThenSumSet(LAMBDA f : stats[f].lostPackets, Flows)]

\* The program when it calls Simulator::Run.
EstadioInit ==
  /\ MonitorInit(0)
  /\ simTime \in SimTimes
  /\ fase = "run"
  /\ aIniciar = Flows
  /\ aParar = IF Fim # 0 THEN Flows ELSE {}
  /\ ligados = {}
  /\ amostra = Segundo
  /\ linhas = {}
  /\ totais = Soma(m_flowStats)
  /\ metricas = totais
  /\ xml = totais

\* The events that were scheduled before Simulator::Stop was called: they
\* still run at simTime, all others only before.
BeforeStop == now < simTime \/ now = Segundo

-----------------------------------------------------------------------------
(* The events of the run.                                                  *)

IniciaAplicacao(u) ==
  /\ fase = "run" /\ now < simTime
  /\ u \in aIniciar /\ now = Inicio(u)
  /\ aIniciar' = aIniciar \ {u}
  /\ ligados' = ligados \cup {u}
  /\ UNCHANGED <<monitorVars, simTime, fase, aParar, amostra, linhas, totais,
                 metricas, xml>>

\* A generator that has no socket yet finds nothing to close.
ParaAplicacao(u) ==
  /\ fase = "run" /\ now < simTime
  /\ u \in aParar /\ now = Fim
  /\ u \in aIniciar => Inicio(u) > Fim
  /\ aParar' = aParar \ {u}
  /\ ligados' = ligados \ {u}
  /\ UNCHANGED <<monitorVars, simTime, fase, aIniciar, amostra, linhas, totais,
                 metricas, xml>>

\* SendPacket, some time after StartApplication and before StopApplication,
\* which was scheduled earlier and so comes first at the same time.
Envia(u) ==
  /\ fase = "run" /\ now < simTime
  /\ u \in ligados /\ (u \in aParar => now < Fim)
  /\ SumFunction(m_flowPktIdMap) < MaxPackets
  /\ SendOutgoing(u)
  /\ UNCHANGED programVars

Rede == /\ fase = "run" /\ now < simTime
        /\ \E p \in network : PacketMoves(p)
        /\ UNCHANGED programVars

Verifica == /\ fase = "run" /\ BeforeStop
            /\ PeriodicCheckForLostPackets
            /\ UNCHANGED programVars

ComecaMonitor == /\ fase = "run"
                 /\ StartRightNow
                 /\ UNCHANGED programVars

\* Mutant: the chain of samples ends one second early.
AmostraAteAntes ==
  /\ fase = "run" /\ amostra = now /\ BeforeStop
  /\ CheckNow
  /\ totais' = Soma(m_flowStats')
  /\ linhas' = linhas \cup {now}
  /\ amostra' = IF now + 2 * Segundo < simTime THEN now + Segundo ELSE Never
  /\ UNCHANGED <<simTime, fase, aIniciar, aParar, ligados, metricas, xml>>

AmostraMetricas ==
  /\ fase = "run" /\ amostra = now /\ BeforeStop
  /\ CheckNow
  /\ totais' = Soma(m_flowStats')
  /\ linhas' = linhas \cup {now}
  /\ amostra' = IF now + Segundo < simTime THEN now + Segundo ELSE Never
  /\ UNCHANGED <<simTime, fase, aIniciar, aParar, ligados, metricas, xml>>

\* The event of Simulator::Stop(simTime), after which Run returns.
Para ==
  /\ fase = "run" /\ now = simTime
  /\ BeforeStop => now \notin {checkEvent, amostra}
  /\ fase' = "metricas"
  /\ UNCHANGED <<monitorVars, simTime, aIniciar, aParar, ligados, amostra,
                 linhas, totais, metricas, xml>>

\* Time goes on when every event of this instant has run, and does not pass
\* over an event.
Avanca ==
  /\ fase = "run" /\ now + Step <= simTime
  /\ amostra = Never \/ now + Step <= amostra
  /\ \A u \in aIniciar : now + Step <= Inicio(u)
  /\ aParar # {} => now + Step <= Fim
  /\ Passes
  /\ UNCHANGED programVars

-----------------------------------------------------------------------------
(* After the run.                                                          *)

\* Mutant: main reads the statistics without a check for losses.
ColetaSemChecar ==
  /\ fase = "metricas"
  /\ metricas' = Soma(m_flowStats)
  /\ fase' = "xml"
  /\ UNCHANGED <<monitorVars, simTime, aIniciar, aParar, ligados, amostra,
                 linhas, totais, xml>>

ColetaMetricas ==
  /\ fase = "metricas"
  /\ CheckNow
  /\ metricas' = Soma(m_flowStats')
  /\ fase' = "xml"
  /\ UNCHANGED <<simTime, aIniciar, aParar, ligados, amostra, linhas, totais,
                 xml>>

SerializeToXmlFile ==
  /\ fase = "xml"
  /\ CheckNow
  /\ xml' = Soma(m_flowStats')
  /\ fase' = "fim"
  /\ UNCHANGED <<simTime, aIniciar, aParar, ligados, amostra, linhas, totais,
                 metricas>>

EstadioNext ==
  \/ \E u \in Flows : \/ IniciaAplicacao(u) \/ ParaAplicacao(u) \/ Envia(u)
  \/ Rede \/ Verifica \/ ComecaMonitor \/ AmostraMetricas \/ Para \/ Avanca
  \/ ColetaMetricas \/ SerializeToXmlFile

EstadioSpec == EstadioInit /\ [][EstadioNext]_vars

-----------------------------------------------------------------------------
\* Every fan is served: when the run ends each generator has been started, in
\* spite of the stagger of the start times and of the fmod that folds it.
EveryFanServed == fase # "run" => aIniciar = {}

\* From simTime - 0.5 s on no generator sends: none was started too late to
\* see its own stop.
GeneratorsStop == now > Fim => ligados = {}

\* A line is printed for every full second before simTime, and no other: the
\* chain of events that AmostraMetricas schedules neither breaks nor drifts.
LineEverySecond ==
  LET seconds == {s \in 1 .. simTime \div Segundo : s * Segundo < simTime}
  IN /\ linhas \subseteq {s * Segundo : s \in seconds}
     /\ \A s \in seconds : s * Segundo < now => s * Segundo \in linhas

\* The XML file holds the totals that were printed and appended to the CSV
\* file, though the monitor checks for losses once more in between.
ReportsAgree == fase = "fim" => xml = metricas

=============================================================================
