\* Two runs of a pipeline, of up to twelve frames each, with floats of four bits.
CONSTANTS
    Half = 8
    One = 64
    Width = 13
    Height = 3
    Threshold = 16
    Named = {0, 1}
    NaN = NaN
    Malformed = Malformed
    Refused = Refused
    None = None
    Media <- MCMedia
    Rates <- MCRates
    Limits = {None, 2}
    Readings = {0, 20, 44, 88}
    Raws <- MCRaws
    MaxFrames = 12
    MaxRuns = 2
SPECIFICATION Spec
INVARIANTS CleanEndIsComplete EventsAreNamedOnce EventShowsTheFrame
PROPERTIES SamplingKeepsTheRate
CHECK_DEADLOCK FALSE
