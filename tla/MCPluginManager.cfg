\* Two configured plugins (so a Start can fail after another succeeded),
\* one unconfigured name, and two concurrent GetPluginTemplate callers.
CONSTANTS
  p1 = p1
  p2 = p2
  u1 = u1
  c1 = c1
  c2 = c2
  Nil = Nil
  Plugins <- MCPlugins
  Unknown <- MCUnknown
  Callers <- MCCallers
SPECIFICATION Spec
SYMMETRY Symmetry
INVARIANT StartFailureRollsBack
INVARIANT StopNilMeansAllStopped
INVARIANT TemplateBoundToPlugin
\* The service's life ends: Stop (or a failed Start) is its last call, and
\* each caller makes one call; a runtime throw ends the process.
CHECK_DEADLOCK FALSE
