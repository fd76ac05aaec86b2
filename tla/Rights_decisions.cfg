SPECIFICATION MCSpec
CONSTANTS
    Parts = {"rights", "classification", "duplicates"}
    None = None
    Urls <- MCUrls
    Deaths = {1300, 1301}
    MaxDeath = 1300
    Words = {"ahadith", "tafsir_alquran", "aqida", "hadith", "riwaya_haditha", "qisas",
             "hawliyyat", "tarikh_dimashq", "istimar", "tarikh_hadith", "alfizya", "kimiya",
             "aljabr", "anwa", "fi_altibb", "dawa", "kharaj", "saada", "ahlam"}
    Tagged = {"hadith", "tafsir", "stories", "math", "astronomy", "medicine"}
    Titles <- MCTitles
    Authors <- MCAuthors
    Years = {None, 1300, 1302, 1303}
    Volumes <- MCVolumes
INVARIANTS
    AutoPublishIsJustified
    EvidenceIsNeeded
    TermsAreKept
    AuditAgrees
    DuplicatesAreJudged
CHECK_DEADLOCK FALSE
