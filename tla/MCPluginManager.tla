---------------------------- MODULE MCPluginManager ----------------------------
(* Three plugins that depend on one another in a circle: the environment system *)
(* waits for the application, the command system for the environment system,    *)
(* and the user interface, which offers the application, for both.              *)
EXTENDS PluginManager

CONSTANTS environment, commands, ui, envManager, commandManager, application,
          IEnvManager, ICommandManager, IApplication

MCInterfaces == {IEnvManager, ICommandManager, IApplication}
MCFace == [i \in Implementations |-> CASE i = envManager -> IEnvManager
                                       [] i = commandManager -> ICommandManager
                                       [] i = application -> IApplication]
MCProvider == [i \in Implementations |-> CASE i = envManager -> environment
                                           [] i = commandManager -> commands
                                           [] i = application -> ui]
MCInitial == {envManager, application}
MCNeeds == [p \in Plugins |-> CASE p = environment -> {IApplication}
                                [] p = commands -> {IEnvManager}
                                [] p = ui -> {ICommandManager, IEnvManager}]
MCWants == [p \in Plugins |-> CASE p = environment -> ICommandManager
                                [] p = commands -> IApplication
                                [] p = ui -> ICommandManager]
MCLate == {ui}
MCLazy == {commands, ui}
=============================================================================
